---- MODULE Spec2Model ----
(***************************************************************************)
(* Lighthouse: Fraggle Rock config artifact resolution                     *)
(* (resolveArtifactsToDefns / resolveArtifactDependencies /                *)
(* initializeConfig with its settings overrides per gather mode),          *)
(* the work-during-interaction audit (task clipping                        *)
(* with recursivelyClipTasks / clipTasksByTs, getPhaseTimes, the per-url   *)
(* rows of eventThreadBreakdown, the control flow of audit) and the        *)
(* computed-artifact cache the audit requests its inputs from.             *)
(*                                                                         *)
(* Times: trace timestamps (event.ts, window bounds) are integers in trace *)
(* units (microseconds) and are whole milliseconds, so the derived task    *)
(* fields, the quotient by 1000, are exact integers in milliseconds, as    *)
(* are the execution times summed from them.  Floating-point rounding of   *)
(* the quotient is not modelled.                                           *)
(***************************************************************************)
EXTENDS Integers, Sequences, FiniteSets, TLC

VARIABLES
  artifacts,              \* configWorkingCopy.artifacts, the declarations
  pc,                     \* position in initializeConfig / the audit
  artifactDefnsBySymbol,  \* Map<Symbol, ArtifactDefn> of resolveArtifactsToDefns
  artifactDefns,          \* definitions produced so far by artifacts.map
  thrown,                 \* the error thrown to the caller, NoError if none
  config,                 \* the config returned by initializeConfig
  tasks,                  \* the TaskNode list (arena, index = position)
  window,                 \* bounds of the last clipTasksByTs call
  reclipped,              \* last clip ran over the result of a different clip
  interactionEvent,       \* the EventTimingEvent, NoEvent for null
  phases,                 \* the value getPhaseTimes returned
  executionTimings,       \* Map url -> timingByGroupId, in insertion order
  filteredResults,        \* the per-url rows of one phase after filter and sort
  items,                  \* the table items eventThreadBreakdown pushed, one per phase
  context,                \* ConfigContext of initializeConfig: gatherMode, settingsOverrides
  settings,               \* the settings initializeConfig resolves; context.settings of the audit
  trace,                  \* artifacts.traces[DEFAULT_PASS] as the audit reads it
  requested,              \* computed artifacts the audit requested, in order
  auditResult,            \* the product the audit returned, NoProduct before
  computedCache,          \* one cache instance: key -> cached computation
  executions,             \* per key, how many times computeFn was started
  callers,                \* per caller of request: key, state, value received
  computeFns              \* per key, the keys its computeFn requests, in order

vars == <<artifacts, pc, artifactDefnsBySymbol, artifactDefns, thrown, config,
          tasks, window, reclipped,
          interactionEvent, phases, executionTimings, filteredResults, items,
          context, settings, trace, requested, auditResult,
          computedCache, executions, callers, computeFns>>

resolverVars == <<artifacts, artifactDefnsBySymbol, artifactDefns, thrown, config>>
clipVars == <<tasks, window, reclipped>>
phaseVars == <<interactionEvent, phases>>
tableVars == <<executionTimings, filteredResults, items>>
auditVars == <<context, settings, trace, requested, auditResult>>
cacheVars == <<computedCache, executions, callers, computeFns>>

----------------------------------------------------------------------------
(* Bounds *)

MaxDecls == 3
MaxTasks == 3
MaxTs == 2
MaxMs == 3
MaxTotalMs == 5
MaxRows == 2
MaxCallers == 2

ArtifactIds == {"A", "B", "C"}
Symbols == {"s1", "s2"}
NoSymbol == "none"

----------------------------------------------------------------------------
(* Gatherers *)

Dep(name, symbol) == [name |-> name, symbol |-> symbol]

Gatherer(name, phase, symbol, hasDeps, deps) ==
  [name |-> name, phase |-> phase, symbol |-> symbol,
   hasDependencies |-> hasDeps, dependencies |-> deps]

\* The gatherers a declaration can name, all of them Fraggle Rock gatherers
\* (isFRGathererDefn holds).  dependencies lists the entries of
\* meta.dependencies in Object.entries order; hasDependencies is
\* 'dependencies' in meta.
coreGathererList ==
  { Gatherer("g1", "navigation", "s1", FALSE, <<>>),
    Gatherer("g2", "timespan", "s2", FALSE, <<>>),
    Gatherer("g3", "navigation", NoSymbol, TRUE, <<Dep("d1", "s1"), Dep("d2", "s2")>>),
    Gatherer("g4", "timespan", NoSymbol, TRUE, <<Dep("d1", "s1"), Dep("d2", "s2")>>),
    Gatherer("g5", "timespan", "s2", TRUE, <<Dep("d2", "s2")>>),
    Gatherer("g6", "snapshot", "s2", FALSE, <<>>) }

ArtifactJson == [id : ArtifactIds, gatherer : coreGathererList]

RECURSIVE SeqsUpTo(_, _)
SeqsUpTo(S, n) ==
  IF n = 0 THEN {<<>>}
  ELSE LET shorter == SeqsUpTo(S, n - 1)
       IN shorter \cup {Append(s, x) : s \in {t \in shorter : Len(t) = n - 1}, x \in S}

----------------------------------------------------------------------------
(* Errors *)

NoError == [kind |-> "none", id |-> "", dependency |-> ""]

throwInvalidDependencyOrder(artifactId, dependencyName) ==
  [kind |-> "DependencyOrderError", id |-> artifactId, dependency |-> dependencyName]

throwInvalidArtifactDependency(artifactId, dependencyName) ==
  [kind |-> "DependencyPhaseError", id |-> artifactId, dependency |-> dependencyName]

DuplicateArtifactIdError(artifactId) ==
  [kind |-> "DuplicateArtifactIdError", id |-> artifactId, dependency |-> ""]

----------------------------------------------------------------------------
(* resolveArtifactDependencies *)

Undefined == [defined |-> FALSE, entries |-> <<>>]
NoGatherer == Gatherer("", "", NoSymbol, FALSE, <<>>)
NoDefn == [id |-> "", gatherer |-> NoGatherer, dependencies |-> Undefined]
Null == [isNull |-> TRUE, list |-> <<>>]
Array(list) == [isNull |-> FALSE, list |-> list]
NoConfig == [returned |-> FALSE, artifacts |-> Null]

\* Values of the audit's and the cache's state while they are not in use.
NoEvent == [isNull |-> TRUE]
NoPhases == [returned |-> FALSE]
NoProduct == [returned |-> FALSE]
NoSettings == [throttlingMethod |-> "none"]
NoContext == [gatherMode |-> "none"]
NoTrace == [isNull |-> TRUE]

PhasesIdle == interactionEvent = NoEvent /\ phases = NoPhases
TableIdle == executionTimings = <<>> /\ filteredResults = <<>> /\ items = <<>>
AuditIdle ==
  /\ context = NoContext
  /\ settings = NoSettings
  /\ trace = NoTrace
  /\ requested = <<>>
  /\ auditResult = NoProduct
CacheIdle ==
  /\ computedCache = <<>>
  /\ executions = <<>>
  /\ callers = <<>>
  /\ computeFns = <<>>

\* A navigation gatherer can depend on anything; a timespan or snapshot
\* gatherer only on a gatherer of its own phase.
isValidArtifactDependency(dependent, dependency) ==
  IF dependent.phase = "navigation" THEN TRUE
  ELSE dependency.phase = dependent.phase

\* Mutant: the order error names the required symbol, not the dependency name.
DependencyErrorNamesSymbol(artifact, gatherer, defnsBySymbol, entry) ==
  LET dependency == defnsBySymbol[entry.symbol]
  IN IF dependency = NoDefn
       THEN throwInvalidDependencyOrder(artifact.id, entry.symbol)
     ELSE IF ~isValidArtifactDependency(gatherer, dependency.gatherer)
       THEN throwInvalidArtifactDependency(artifact.id, entry.name)
     ELSE NoError

\* Mutant: the phase relationship is not checked.
DependencyErrorNoPhaseCheck(artifact, gatherer, defnsBySymbol, entry) ==
  LET dependency == defnsBySymbol[entry.symbol]
  IN IF dependency = NoDefn
       THEN throwInvalidDependencyOrder(artifact.id, entry.name)
     ELSE NoError

\* The callback of Object.entries(...).map for one entry: the error it throws,
\* NoError when it returns.
DependencyError(artifact, gatherer, defnsBySymbol, entry) ==
  LET dependency == defnsBySymbol[entry.symbol]
  IN IF dependency = NoDefn
       THEN throwInvalidDependencyOrder(artifact.id, entry.name)
     ELSE IF ~isValidArtifactDependency(gatherer, dependency.gatherer)
       THEN throwInvalidArtifactDependency(artifact.id, entry.name)
     ELSE NoError

\* Mutant: the entry holds the upstream definition itself.
DependencyEntryWholeDefn(defnsBySymbol, entry) ==
  [name |-> entry.name, value |-> defnsBySymbol[entry.symbol]]

\* What the callback returns for one entry: [dependencyName, {id: dependency.id}]
DependencyEntry(defnsBySymbol, entry) ==
  [name |-> entry.name, value |-> [id |-> defnsBySymbol[entry.symbol].id]]

\* Mutant: every entry is checked and the last failure is the one reported.
RECURSIVE LastFailing(_, _, _, _)
LastFailing(artifact, gatherer, defnsBySymbol, k) ==
  IF k > Len(gatherer.dependencies) THEN 0
  ELSE LET later == LastFailing(artifact, gatherer, defnsBySymbol, k + 1)
       IN IF later # 0 THEN later
          ELSE IF DependencyError(artifact, gatherer, defnsBySymbol,
                                  gatherer.dependencies[k]) # NoError THEN k
          ELSE 0

\* Index of the first entry whose callback throws, 0 if none does.
RECURSIVE FirstFailing(_, _, _, _)
FirstFailing(artifact, gatherer, defnsBySymbol, k) ==
  IF k > Len(gatherer.dependencies) THEN 0
  ELSE IF DependencyError(artifact, gatherer, defnsBySymbol,
                          gatherer.dependencies[k]) # NoError THEN k
  ELSE FirstFailing(artifact, gatherer, defnsBySymbol, k + 1)

\* Result of resolveArtifactDependencies: the error thrown and the value returned.
resolveArtifactDependencies(artifact, gatherer, defnsBySymbol) ==
  IF ~gatherer.hasDependencies
    THEN [error |-> NoError, dependencies |-> Undefined]
  ELSE LET k == FirstFailing(artifact, gatherer, defnsBySymbol, 1)
       IN IF k # 0
            THEN [error |-> DependencyError(artifact, gatherer, defnsBySymbol,
                                            gatherer.dependencies[k]),
                  dependencies |-> Undefined]
          ELSE [error |-> NoError,
                dependencies |->
                  [defined |-> TRUE,
                   entries |-> [j \in 1..Len(gatherer.dependencies) |->
                                  DependencyEntry(defnsBySymbol, gatherer.dependencies[j])]]]

----------------------------------------------------------------------------
(* resolveArtifactsToDefns, one call of the artifacts.map callback per step *)

\* Mutant: the symbol is registered before the dependencies are resolved.
ArtifactDefnRegisteredFirst(artifactJson, defnsBySymbol) ==
  LET registered ==
        IF artifactJson.gatherer.symbol # NoSymbol
          THEN [defnsBySymbol EXCEPT ![artifactJson.gatherer.symbol] =
                  [id |-> artifactJson.id, gatherer |-> artifactJson.gatherer,
                   dependencies |-> Undefined]]
        ELSE defnsBySymbol
  IN [id |-> artifactJson.id,
      gatherer |-> artifactJson.gatherer,
      dependencies |-> resolveArtifactDependencies(artifactJson, artifactJson.gatherer,
                                                   registered).dependencies]

\* The definition the callback builds for artifactJson.
ArtifactDefn(artifactJson, defnsBySymbol) ==
  [id |-> artifactJson.id,
   gatherer |-> artifactJson.gatherer,
   dependencies |-> resolveArtifactDependencies(artifactJson, artifactJson.gatherer,
                                                defnsBySymbol).dependencies]

\* Mutant: the symbol is never registered.
SetSymbolSkipped(defnsBySymbol, artifact) == defnsBySymbol

\* Mutant: a symbol that is already registered keeps its first definition.
SetSymbolKeepFirst(defnsBySymbol, artifact) ==
  LET symbol == artifact.gatherer.symbol
  IN IF symbol # NoSymbol /\ defnsBySymbol[symbol] = NoDefn
       THEN [defnsBySymbol EXCEPT ![symbol] = artifact]
     ELSE defnsBySymbol

\* artifactDefnsBySymbol after the callback: set(symbol, artifact) if the
\* gatherer has a symbol.
SetSymbol(defnsBySymbol, artifact) ==
  LET symbol == artifact.gatherer.symbol
  IN IF symbol # NoSymbol
       THEN [defnsBySymbol EXCEPT ![symbol] = artifact]
     ELSE defnsBySymbol

ResolveNull ==
  /\ pc = "resolveArtifactsToDefns"
  /\ artifacts.isNull
  /\ pc' = "assertValidConfig"
  /\ UNCHANGED <<artifacts, artifactDefnsBySymbol, artifactDefns, thrown, config>>
  /\ UNCHANGED <<clipVars, phaseVars, tableVars, auditVars, cacheVars>>

ResolveArtifact ==
  /\ pc = "resolveArtifactsToDefns"
  /\ ~artifacts.isNull
  /\ Len(artifactDefns) < Len(artifacts.list)
  /\ LET artifactJson == artifacts.list[Len(artifactDefns) + 1]
         resolved == resolveArtifactDependencies(artifactJson, artifactJson.gatherer,
                                                 artifactDefnsBySymbol)
         artifact == ArtifactDefn(artifactJson, artifactDefnsBySymbol)
     IN IF resolved.error # NoError
          THEN /\ thrown' = resolved.error
               /\ pc' = "threw"
               /\ UNCHANGED <<artifactDefnsBySymbol, artifactDefns>>
        ELSE /\ artifactDefnsBySymbol' = SetSymbol(artifactDefnsBySymbol, artifact)
             /\ artifactDefns' = Append(artifactDefns, artifact)
             /\ UNCHANGED <<thrown, pc>>
  /\ UNCHANGED <<artifacts, config>>
  /\ UNCHANGED <<clipVars, phaseVars, tableVars, auditVars, cacheVars>>

ResolveReturn ==
  /\ pc = "resolveArtifactsToDefns"
  /\ ~artifacts.isNull
  /\ Len(artifactDefns) = Len(artifacts.list)
  /\ pc' = "assertValidConfig"
  /\ UNCHANGED <<artifacts, artifactDefnsBySymbol, artifactDefns, thrown, config>>
  /\ UNCHANGED <<clipVars, phaseVars, tableVars, auditVars, cacheVars>>

\* The artifacts value resolveArtifactsToDefns returned to initializeConfig.
ResolvedArtifacts == IF artifacts.isNull THEN Null ELSE Array(artifactDefns)

\* Index of the first definition whose id or symbol an earlier one carries, 0 if none.
RECURSIVE FirstDuplicate(_, _)
FirstDuplicate(defns, k) ==
  IF k > Len(defns) THEN 0
  ELSE IF \E j \in 1..(k - 1) :
            \/ defns[j].id = defns[k].id
            \/ /\ defns[k].gatherer.symbol # NoSymbol
               /\ defns[j].gatherer.symbol = defns[k].gatherer.symbol
         THEN k
  ELSE FirstDuplicate(defns, k + 1)

\* initializeConfig after resolveArtifactsToDefns returned: assertValidConfig
\* rejects a config in which two artifacts claim the same id or symbol,
\* otherwise the config is returned.
AssertValidConfig ==
  /\ pc = "assertValidConfig"
  /\ LET k == FirstDuplicate(ResolvedArtifacts.list, 1)
     IN IF k # 0
          THEN /\ thrown' = DuplicateArtifactIdError(ResolvedArtifacts.list[k].id)
               /\ pc' = "threw"
               /\ UNCHANGED config
        ELSE /\ config' = [returned |-> TRUE, artifacts |-> ResolvedArtifacts]
             /\ pc' = "done"
             /\ UNCHANGED thrown
  /\ UNCHANGED <<artifacts, artifactDefnsBySymbol, artifactDefns>>
  /\ UNCHANGED <<clipVars, phaseVars, tableVars, auditVars, cacheVars>>

InitConfig ==
  /\ artifacts \in {Null} \cup {Array(list) : list \in SeqsUpTo(ArtifactJson, MaxDecls)}
  /\ pc = "resolveArtifactsToDefns"
  /\ artifactDefnsBySymbol = [s \in Symbols |-> NoDefn]
  /\ artifactDefns = <<>>
  /\ thrown = NoError
  /\ config = NoConfig
  /\ tasks = <<>>
  /\ window = [startTs |-> 0, endTs |-> 0, clipped |-> FALSE]
  /\ reclipped = FALSE
  /\ PhasesIdle /\ TableIdle /\ AuditIdle /\ CacheIdle

NextConfig == ResolveNull \/ ResolveArtifact \/ ResolveReturn \/ AssertValidConfig

SpecConfig == InitConfig /\ [][NextConfig]_vars

----------------------------------------------------------------------------
(* Task nodes *)

\* Trace timestamps are whole milliseconds written in trace units, so the
\* quotient by 1000 is exact.
Timestamps == {1000 * t : t \in 0..MaxTs}

NoDur == -1
NoParent == 0
NoEndEvent == [defined |-> FALSE, ts |-> 0]

Min2(a, b) == IF a <= b THEN a ELSE b
Max2(a, b) == IF a >= b THEN a ELSE b

RECURSIVE SumSeq(_)
SumSeq(s) == IF s = <<>> THEN 0 ELSE Head(s) + SumSeq(Tail(s))

\* A span of the thread's trace and the index of the span that encloses it.
RawSpans ==
  {r \in [ts : Timestamps, end : Timestamps, parent : 0..(MaxTasks - 1)] : r.ts <= r.end}

\* How a trace records the end of its spans: a matching end event, or a
\* duration on the event itself (left out when the span is empty).
EndKinds == {"endEvent", "dur"}

\* The last span before position i that has the same parent, 0 if none.
PreviousSibling(raw, i, parent) ==
  LET siblings == {j \in 1..(i - 1) : raw[j].parent = parent}
  IN IF siblings = {} THEN 0 ELSE CHOOSE j \in siblings : \A k \in siblings : k <= j

\* Span i and the spans that enclose it.
RECURSIVE OpenSpans(_, _)
OpenSpans(raw, i) == IF i = 0 THEN {} ELSE {i} \cup OpenSpans(raw, raw[i].parent)

\* r can follow the spans of raw in timestamp order: it is a root or lies
\* inside a span still open after the last one, its parent contains it, and
\* it starts no earlier than its previous sibling ends.
Nests(raw, r) ==
  LET i == Len(raw) + 1
      sibling == PreviousSibling(raw, i, r.parent)
  IN /\ r.parent \in {NoParent} \cup OpenSpans(raw, i - 1)
     /\ r.parent # NoParent =>
          (raw[r.parent].ts <= r.ts /\ r.end <= raw[r.parent].end)
     /\ sibling # 0 => raw[sibling].end <= r.ts

\* The nested span lists of exactly n spans.
RECURSIVE Forests(_)
Forests(n) ==
  IF n = 0 THEN {<<>>}
  ELSE UNION {{Append(raw, r) : r \in {q \in RawSpans : Nests(raw, q)}} :
                raw \in Forests(n - 1)}

ChildrenOf(raw, n) ==
  LET RECURSIVE From(_)
      From(i) == IF i > Len(raw) THEN <<>>
                 ELSE IF raw[i].parent = n THEN <<i>> \o From(i + 1)
                 ELSE From(i + 1)
  IN From(1)

\* The task nodes built for a span list, times relative to trace time 0.
BuildTaskNodes(raw, kind) ==
  [n \in 1..Len(raw) |->
     [event |-> [ts |-> raw[n].ts,
                 dur |-> IF kind = "dur" /\ raw[n].end > raw[n].ts
                           THEN raw[n].end - raw[n].ts
                         ELSE NoDur],
      endEvent |-> IF kind = "endEvent"
                     THEN [defined |-> TRUE, ts |-> raw[n].end]
                   ELSE NoEndEvent,
      parent |-> raw[n].parent,
      children |-> ChildrenOf(raw, n),
      startTime |-> raw[n].ts \div 1000,
      endTime |-> raw[n].end \div 1000,
      duration |-> (raw[n].end \div 1000) - (raw[n].ts \div 1000),
      selfTime |-> ((raw[n].end \div 1000) - (raw[n].ts \div 1000))
                   - SumSeq([k \in 1..Len(ChildrenOf(raw, n)) |->
                               (raw[ChildrenOf(raw, n)[k]].end \div 1000)
                               - (raw[ChildrenOf(raw, n)[k]].ts \div 1000)])]]

----------------------------------------------------------------------------
(* recursivelyClipTasks, clipTasksByTs *)

\* Mutant: the start is taken from the previous clip's startTime.
TaskEventStartFromLastClip(task) == task.startTime * 1000

TaskEventStart(task) == task.event.ts

\* Mutant: the end event is not looked at.
TaskEventEndFromDur(task) ==
  task.event.ts + (IF task.event.dur = NoDur THEN 0 ELSE task.event.dur)

\* task.endEvent?.ts ?? task.event.ts + Number(task.event.dur || 0)
TaskEventEnd(task) ==
  IF task.endEvent.defined THEN task.endEvent.ts
  ELSE task.event.ts + (IF task.event.dur = NoDur THEN 0 ELSE task.event.dur)

\* Mutant: the quotient by 1000 is forgotten.
ClipTsNoQuotient(startTs, endTs, eventTs) == Max2(startTs, Min2(endTs, eventTs))

\* Mutant: only the upper window edge clamps.
ClipTsUpperOnly(startTs, endTs, eventTs) == Min2(endTs, eventTs) \div 1000

\* Mutant: the two clamps are applied in the other order.
ClipTsUpperFirst(startTs, endTs, eventTs) == Min2(endTs, Max2(startTs, eventTs)) \div 1000

\* Mutant: only the lower window edge clamps.
ClipTsLowerOnly(startTs, endTs, eventTs) == Max2(startTs, eventTs) \div 1000

\* Math.max(startTs, Math.min(endTs, eventTs)) / 1000
ClipTs(startTs, endTs, eventTs) == Max2(startTs, Min2(endTs, eventTs)) \div 1000

\* Mutant: the children's time is not subtracted.
SelfTimeIgnoresChildren(duration, childTime) == duration

\* Mutant: the children's time is subtracted twice.
SelfTimeLessChildrenTwice(duration, childTime) == duration - 2 * childTime

\* task.selfTime = task.duration - childTime
SelfTime(duration, childTime) == duration - childTime

RECURSIVE recursivelyClipTasks(_, _, _, _)
RECURSIVE ClipChildren(_, _, _, _, _)

\* Clips the children of a node from position k on, in order; returns the
\* node list and the sum of the durations returned for them.
ClipChildren(nodes, children, k, startTs, endTs) ==
  IF k > Len(children) THEN [nodes |-> nodes, childTime |-> 0]
  ELSE LET first == recursivelyClipTasks(nodes, children[k], startTs, endTs)
           rest == ClipChildren(first.nodes, children, k + 1, startTs, endTs)
       IN [nodes |-> rest.nodes, childTime |-> first.duration + rest.childTime]

\* Clips node n and its descendants in place; returns the node list and task.duration.
recursivelyClipTasks(nodes, n, startTs, endTs) ==
  LET task == nodes[n]
      taskEventStart == TaskEventStart(task)
      taskEventEnd == TaskEventEnd(task)
      startTime == ClipTs(startTs, endTs, taskEventStart)
      endTime == ClipTs(startTs, endTs, taskEventEnd)
      duration == endTime - startTime
      clipped == [nodes EXCEPT ![n].startTime = startTime,
                               ![n].endTime = endTime,
                               ![n].duration = duration]
      below == ClipChildren(clipped, task.children, 1, startTs, endTs)
  IN [nodes |-> [below.nodes EXCEPT ![n].selfTime = SelfTime(duration, below.childTime)],
      duration |-> duration]

\* for (const task of tasks) { if (task.parent) continue; recursivelyClipTasks(...) }
RECURSIVE ClipFrom(_, _, _, _)
ClipFrom(nodes, n, startTs, endTs) ==
  IF n > Len(nodes) THEN nodes
  ELSE IF nodes[n].parent # NoParent THEN ClipFrom(nodes, n + 1, startTs, endTs)
  ELSE ClipFrom(recursivelyClipTasks(nodes, n, startTs, endTs).nodes, n + 1, startTs, endTs)

clipTasksByTs(nodes, startTs, endTs) == ClipFrom(nodes, 1, startTs, endTs)

NoWindow == [startTs |-> 0, endTs |-> 0, clipped |-> FALSE]

ClipTasksByTs ==
  /\ pc = "clip"
  /\ \E startTs \in Timestamps, endTs \in Timestamps :
       /\ tasks' = clipTasksByTs(tasks, startTs, endTs)
       /\ window' = [startTs |-> startTs, endTs |-> endTs, clipped |-> TRUE]
       /\ reclipped' = (window.clipped /\ <<window.startTs, window.endTs>> # <<startTs, endTs>>)
  /\ UNCHANGED <<pc, artifacts, artifactDefnsBySymbol, artifactDefns, thrown, config>>
  /\ UNCHANGED <<phaseVars, tableVars, auditVars, cacheVars>>

InitClip ==
  /\ \E n \in 1..MaxTasks, kind \in EndKinds :
       tasks \in {BuildTaskNodes(raw, kind) : raw \in Forests(n)}
  /\ window = NoWindow
  /\ reclipped = FALSE
  /\ pc = "clip"
  /\ artifacts = Null
  /\ artifactDefnsBySymbol = [s \in Symbols |-> NoDefn]
  /\ artifactDefns = <<>>
  /\ thrown = NoError
  /\ config = NoConfig
  /\ PhasesIdle /\ TableIdle /\ AuditIdle /\ CacheIdle

NextClip == ClipTasksByTs

SpecClip == InitClip /\ [][NextClip]_vars

----------------------------------------------------------------------------
(* Properties of the resolver, stated over the input list alone *)

list == artifacts.list

Deps(i) == IF list[i].gatherer.hasDependencies THEN list[i].gatherer.dependencies ELSE <<>>

Max(S) == CHOOSE x \in S : \A y \in S : y <= x

\* The last declaration before i whose gatherer carries symbol, 0 if none.
LatestRegistrant(i, symbol) ==
  LET earlier == {j \in 1..(i - 1) : list[j].gatherer.symbol = symbol}
  IN IF earlier = {} THEN 0 ELSE Max(earlier)

DepAbsent(i, k) == LatestRegistrant(i, Deps(i)[k].symbol) = 0

DepIncompatible(i, k) ==
  LET j == LatestRegistrant(i, Deps(i)[k].symbol)
  IN /\ j # 0
     /\ ~isValidArtifactDependency(list[i].gatherer, list[j].gatherer)

DepFails(i, k) == DepAbsent(i, k) \/ DepIncompatible(i, k)

DepPairs == UNION {{<<i, k>> : k \in 1..Len(Deps(i))} : i \in 1..Len(list)}

\* The resolver gets to check dependency k of declaration i: nothing before it fails.
Reaches(i, k) ==
  \A ik \in DepPairs :
    (ik[1] < i \/ (ik[1] = i /\ ik[2] < k)) => ~DepFails(ik[1], ik[2])

ResolveFinished == pc \in {"threw", "assertValidConfig", "done"}

\* resolveArtifactsToDefns returned a list to initializeConfig.
ResolveReturned ==
  \/ pc \in {"assertValidConfig", "done"}
  \/ pc = "threw" /\ thrown.kind = "DuplicateArtifactIdError"

HasDuplicate ==
  \E i, j \in 1..Len(list) :
    /\ i < j
    /\ \/ list[i].id = list[j].id
       \/ list[i].gatherer.symbol # NoSymbol /\ list[i].gatherer.symbol = list[j].gatherer.symbol

\* C1: when every dependency symbol is registered by an earlier declaration
\* and is phase-compatible with it, resolveArtifactsToDefns never throws and
\* returns one definition per declaration with output[i].id = input[i].id.
C1_ResolvesInOrder ==
  (~artifacts.isNull /\ \A ik \in DepPairs : ~DepFails(ik[1], ik[2])) =>
    /\ thrown.kind \notin {"DependencyOrderError", "DependencyPhaseError"}
    /\ Len(artifactDefns) <= Len(list)
    /\ \A i \in 1..Len(artifactDefns) : artifactDefns[i].id = list[i].id
    /\ ResolveFinished => Len(artifactDefns) = Len(list)

C1_Witness ==
  /\ pc = "done"
  /\ Len(list) = 3
  /\ \E i \in 1..3 : Len(Deps(i)) = 2
  /\ config.artifacts.list[2].id = list[2].id
  /\ list[1].id # list[2].id

\* C2: a dependency whose symbol no earlier declaration registered makes
\* resolution fail; when the resolver reaches that dependency the error is
\* DependencyOrderError naming the declaration's id and the dependency name.
C2_OrderError ==
  ~artifacts.isNull =>
    \A ik \in DepPairs :
      DepAbsent(ik[1], ik[2]) =>
        /\ ~ResolveReturned
        /\ (Reaches(ik[1], ik[2]) /\ ResolveFinished) =>
             thrown = [kind |-> "DependencyOrderError", id |-> list[ik[1]].id,
                       dependency |-> Deps(ik[1])[ik[2]].name]

\* [B(deps: A), A]: the symbol is registered, but only by a later declaration.
C2_Witness ==
  /\ pc = "threw"
  /\ thrown.kind = "DependencyOrderError"
  /\ \E ik \in DepPairs :
       /\ DepAbsent(ik[1], ik[2]) /\ Reaches(ik[1], ik[2])
       /\ thrown.dependency = Deps(ik[1])[ik[2]].name
       /\ \E j \in (ik[1] + 1)..Len(list) :
            list[j].gatherer.symbol = Deps(ik[1])[ik[2]].symbol

\* C3: a registered dependency whose gatherer phase is incompatible with the
\* dependent's makes resolution fail; when the resolver reaches it the error
\* is DependencyPhaseError naming the dependent id and the dependency name;
\* a phase error is never raised for a dependency whose symbol is absent.
C3_PhaseError ==
  ~artifacts.isNull =>
    /\ \A ik \in DepPairs :
         DepIncompatible(ik[1], ik[2]) =>
           /\ ~ResolveReturned
           /\ (Reaches(ik[1], ik[2]) /\ ResolveFinished) =>
                thrown = [kind |-> "DependencyPhaseError", id |-> list[ik[1]].id,
                          dependency |-> Deps(ik[1])[ik[2]].name]
    /\ thrown.kind = "DependencyPhaseError" =>
         \E k \in 1..Len(Deps(Len(artifactDefns) + 1)) :
           /\ Deps(Len(artifactDefns) + 1)[k].name = thrown.dependency
           /\ ~DepAbsent(Len(artifactDefns) + 1, k)

\* A phase error on the first dependency although the second one is absent.
C3_Witness ==
  /\ pc = "threw"
  /\ thrown.kind = "DependencyPhaseError"
  /\ \E ik \in DepPairs :
       /\ DepIncompatible(ik[1], ik[2]) /\ Reaches(ik[1], ik[2])
       /\ ik[2] + 1 <= Len(Deps(ik[1]))
       /\ DepAbsent(ik[1], ik[2] + 1)

\* The last declaration of the list whose gatherer carries symbol, 0 if none.
LastRegistrant(symbol) == LatestRegistrant(Len(list) + 1, symbol)

\* C4 as stated: when two declarations carry the same id or register the same
\* symbol, resolveArtifactsToDefns does not return a list of definitions.
C4_DuplicateFailsResolution ==
  (~artifacts.isNull /\ HasDuplicate) => pc # "assertValidConfig"

\* C4 amended: resolveArtifactsToDefns makes no duplicate check.  With two
\* declarations of the same id or symbol it throws only order or phase
\* errors, returns one definition per declaration when no such check fails
\* (the lookup then holds the last registrant of each symbol), and a
\* DuplicateArtifactIdError is raised only after it has returned the full list.
C4_NoDuplicateCheckInResolver ==
  (~artifacts.isNull /\ HasDuplicate) =>
    /\ (pc = "threw" /\ Len(artifactDefns) < Len(list)) =>
         thrown.kind \in {"DependencyOrderError", "DependencyPhaseError"}
    /\ thrown.kind = "DuplicateArtifactIdError" => Len(artifactDefns) = Len(list)
    /\ ((\A ik \in DepPairs : ~DepFails(ik[1], ik[2])) /\ ResolveFinished) =>
         /\ ResolveReturned
         /\ Len(artifactDefns) = Len(list)
         /\ \A i \in 1..Len(list) : artifactDefns[i].id = list[i].id
         /\ \A symbol \in Symbols :
              artifactDefnsBySymbol[symbol].id =
                IF LastRegistrant(symbol) = 0 THEN NoDefn.id
                ELSE list[LastRegistrant(symbol)].id

\* The resolver returned a list in which an id and a symbol both occur twice,
\* the second registration under another id.
C4_Witness ==
  /\ pc = "assertValidConfig"
  /\ Len(artifactDefns) = 3
  /\ \E i, j \in 1..3 : i < j /\ list[i].id = list[j].id
  /\ \E i, j \in 1..3 :
       /\ i < j
       /\ list[i].id # list[j].id
       /\ list[i].gatherer.symbol # NoSymbol
       /\ list[i].gatherer.symbol = list[j].gatherer.symbol
       /\ artifactDefnsBySymbol[list[j].gatherer.symbol].id = list[j].id

\* C5: when some order or phase check fails, the error thrown is that of the
\* first failing declaration and of its first failing dependency, no
\* declaration from the failing one on is processed or registered, and
\* initializeConfig returns no config.
C5_FailFast ==
  ~artifacts.isNull =>
    \A ik \in DepPairs :
      (DepFails(ik[1], ik[2]) /\ Reaches(ik[1], ik[2])) =>
        /\ Len(artifactDefns) < ik[1]
        /\ \A symbol \in Symbols :
             artifactDefnsBySymbol[symbol] # NoDefn =>
               \E j \in 1..(ik[1] - 1) :
                 /\ list[j].gatherer.symbol = symbol
                 /\ list[j].id = artifactDefnsBySymbol[symbol].id
        /\ ~ResolveReturned
        /\ config = NoConfig
        /\ ResolveFinished =>
             /\ pc = "threw"
             /\ Len(artifactDefns) = ik[1] - 1
             /\ thrown = [kind |-> IF DepAbsent(ik[1], ik[2])
                                     THEN "DependencyOrderError"
                                   ELSE "DependencyPhaseError",
                          id |-> list[ik[1]].id,
                          dependency |-> Deps(ik[1])[ik[2]].name]

\* The second of three declarations fails on its first dependency while its
\* second dependency and the third declaration would fail too.
C5_Witness ==
  /\ pc = "threw"
  /\ Len(list) = 3
  /\ Len(artifactDefns) = 1
  /\ Len(Deps(2)) = 2
  /\ DepFails(2, 1) /\ DepFails(2, 2)
  /\ thrown.dependency = Deps(2)[1].name
  /\ \E k \in 1..Len(Deps(3)) : DepFails(3, k)
  /\ config = NoConfig

\* C6: in every resolved definition each declared dependency name maps to a
\* record holding only an id, the id of a declaration that stands strictly
\* earlier in the list and registers the required symbol.
C6_DependenciesByIdOnly ==
  ~artifacts.isNull =>
    \A i \in 1..Len(artifactDefns) :
      LET defn == artifactDefns[i]
      IN /\ defn.dependencies.defined = list[i].gatherer.hasDependencies
         /\ Len(defn.dependencies.entries) = Len(Deps(i))
         /\ \A k \in 1..Len(Deps(i)) :
              LET entry == defn.dependencies.entries[k]
              IN /\ entry.name = Deps(i)[k].name
                 /\ DOMAIN entry.value = {"id"}
                 /\ \E j \in 1..(i - 1) :
                      /\ list[j].id = entry.value.id
                      /\ list[j].gatherer.symbol = Deps(i)[k].symbol

C6_Witness ==
  /\ pc = "done"
  /\ \E i \in 1..Len(artifactDefns) :
       /\ Len(artifactDefns[i].dependencies.entries) = 2
       /\ artifactDefns[i].dependencies.entries[1].value.id
            # artifactDefns[i].dependencies.entries[2].value.id

\* The dependencies of declaration i on the symbol its own gatherer registers.
SelfDeps(i) ==
  {k \in 1..Len(Deps(i)) :
     /\ list[i].gatherer.symbol # NoSymbol
     /\ Deps(i)[k].symbol = list[i].gatherer.symbol}

\* What holds of a self-dependency whatever the ids: with no earlier
\* registrant the declaration never resolves and the dependency, once
\* reached, throws DependencyOrderError; a declaration that resolved holds
\* the id of the most recent earlier registrant.
SelfDepResolvesToEarlier(i, k) ==
  LET j == LatestRegistrant(i, list[i].gatherer.symbol)
  IN /\ j = 0 =>
          /\ Len(artifactDefns) < i
          /\ (Reaches(i, k) /\ ResolveFinished) =>
               thrown = throwInvalidDependencyOrder(list[i].id, Deps(i)[k].name)
     /\ i <= Len(artifactDefns) =>
          /\ j # 0
          /\ artifactDefns[i].dependencies.entries[k].value.id = list[j].id

Registrants(i, symbol) == {j \in 1..(i - 1) : list[j].gatherer.symbol = symbol}

\* C27: every dependency of a resolved declaration holds the id of the most
\* recent declaration before it that registered the dependency's symbol,
\* whatever other declarations registered the symbol earlier or later.
C27_ResolvesToMostRecentRegistrant ==
  ~artifacts.isNull =>
    \A i \in 1..Len(artifactDefns) : \A k \in 1..Len(Deps(i)) :
      /\ Registrants(i, Deps(i)[k].symbol) # {}
      /\ \A j \in Registrants(i, Deps(i)[k].symbol) :
           (\A later \in Registrants(i, Deps(i)[k].symbol) : later <= j)
             => artifactDefns[i].dependencies.entries[k].value.id = list[j].id

\* Three declarations under three ids: the second depends on the symbol the
\* first registered and registers it again, the third depends on it too;
\* the second holds the id of the first, the third the id of the second.
C27_Witness ==
  /\ ~artifacts.isNull
  /\ Len(artifactDefns) = 3
  /\ Cardinality({list[i].id : i \in 1..3}) = 3
  /\ \E symbol \in Symbols :
       /\ Registrants(3, symbol) = {1, 2}
       /\ \E k \in 1..Len(Deps(2)) :
            /\ Deps(2)[k].symbol = symbol
            /\ artifactDefns[2].dependencies.entries[k].value.id = list[1].id
       /\ \E k \in 1..Len(Deps(3)) :
            /\ Deps(3)[k].symbol = symbol
            /\ artifactDefns[3].dependencies.entries[k].value.id = list[2].id

----------------------------------------------------------------------------
(* Properties of clipping, stated over the original event timestamps *)

Nodes == 1..Len(tasks)

OrigStart(n) == tasks[n].event.ts

OrigEnd(n) ==
  IF tasks[n].endEvent.defined THEN tasks[n].endEvent.ts
  ELSE IF tasks[n].event.dur = NoDur THEN tasks[n].event.ts
  ELSE tasks[n].event.ts + tasks[n].event.dur

OrigDuration(n) == (OrigEnd(n) - OrigStart(n)) \div 1000

\* Sum of the current durations of the children of n, c left out (0: none left out).
ChildDurationsExcept(n, c) ==
  SumSeq([k \in 1..Len(tasks[n].children) |->
            IF tasks[n].children[k] = c THEN 0
            ELSE tasks[tasks[n].children[k]].duration])

\* The forest as it was built, before any clip.
FreshTasks ==
  [n \in Nodes |->
     [tasks[n] EXCEPT
        !.startTime = OrigStart(n) \div 1000,
        !.endTime = OrigEnd(n) \div 1000,
        !.duration = OrigDuration(n),
        !.selfTime = OrigDuration(n)
                     - SumSeq([k \in 1..Len(tasks[n].children) |->
                                 OrigDuration(tasks[n].children[k])])]]

WhollyBefore(n) == OrigEnd(n) <= window.startTs
WhollyAfter(n) == OrigStart(n) >= window.endTs

\* C7: after clipping with A and then with B every node has the startTime,
\* endTime, duration and selfTime that clipping the freshly built forest
\* with B alone gives.
C7_ClipOrderIndependent ==
  window.clipped => tasks = clipTasksByTs(FreshTasks, window.startTs, window.endTs)

\* The last clip ran over the result of a clip with another window and cut a node.
C7_Witness ==
  /\ reclipped
  /\ Len(tasks) >= 2
  /\ \E n \in Nodes : 0 < tasks[n].duration /\ tasks[n].duration < OrigDuration(n)

\* C8: after any clip every node has selfTime = duration - (sum of the
\* durations of its direct children) and duration = endTime - startTime.
C8_SelfTimeInvariant ==
  window.clipped =>
    \A n \in Nodes :
      /\ tasks[n].selfTime = tasks[n].duration - ChildDurationsExcept(n, 0)
      /\ tasks[n].duration = tasks[n].endTime - tasks[n].startTime

\* A node with two children, cut by the window, one child still running in it.
C8_Witness ==
  /\ window.clipped
  /\ \E n \in Nodes :
       /\ Len(tasks[n].children) = 2
       /\ OrigDuration(tasks[n].children[1]) > 0
       /\ OrigDuration(tasks[n].children[2]) > 0
       /\ ChildDurationsExcept(n, 0) > 0
       /\ tasks[n].duration < OrigDuration(n)

\* C9: a window that contains every node's original span leaves every node
\* with its original duration, (original end - original start) / 1000.
C9_ContainingWindowKeepsDuration ==
  (/\ window.clipped
   /\ \A n \in Nodes : window.startTs <= OrigStart(n) /\ OrigEnd(n) <= window.endTs) =>
    \A n \in Nodes : tasks[n].duration = OrigDuration(n)

C9_Witness ==
  /\ reclipped
  /\ \A n \in Nodes : window.startTs <= OrigStart(n) /\ OrigEnd(n) <= window.endTs
  /\ Len(tasks) >= 2
  /\ \E n \in Nodes : tasks[n].parent # NoParent /\ tasks[n].duration > 0

\* C10: for a window with startTs <= endTs, a task wholly before the window
\* has startTime = endTime = window start and duration 0, a task wholly after
\* it has startTime = endTime = window end and duration 0, and the parent of
\* such a task has selfTime = duration - (durations of its other children).
C10_OutsideCollapses ==
  (window.clipped /\ window.startTs <= window.endTs) =>
    \A n \in Nodes :
      /\ WhollyBefore(n) =>
           /\ tasks[n].startTime = window.startTs \div 1000
           /\ tasks[n].endTime = window.startTs \div 1000
           /\ tasks[n].duration = 0
      /\ WhollyAfter(n) =>
           /\ tasks[n].startTime = window.endTs \div 1000
           /\ tasks[n].endTime = window.endTs \div 1000
           /\ tasks[n].duration = 0
      /\ ((WhollyBefore(n) \/ WhollyAfter(n)) /\ tasks[n].parent # NoParent) =>
           tasks[tasks[n].parent].selfTime =
             tasks[tasks[n].parent].duration - ChildDurationsExcept(tasks[n].parent, n)

\* The window leaves out a child that ran for some time and keeps part of its parent.
C10_Witness ==
  /\ window.clipped
  /\ window.startTs < window.endTs
  /\ \E n \in Nodes :
       /\ tasks[n].parent # NoParent
       /\ OrigDuration(n) > 0
       /\ WhollyBefore(n) \/ WhollyAfter(n)
       /\ tasks[n].duration = 0
       /\ tasks[tasks[n].parent].duration > 0
       /\ tasks[tasks[n].parent].selfTime = tasks[tasks[n].parent].duration

\* What a clip is given and never writes: the events, the children and the
\* parent of a node.
Original(task) ==
  [event |-> task.event, endEvent |-> task.endEvent,
   children |-> task.children, parent |-> task.parent]

\* C22: a clip changes only startTime, endTime, duration and selfTime: the
\* node list keeps its length and every node its event, endEvent, children
\* and parent, whatever the number of clips; and after a clip a node's
\* endTime is its original end (endEvent.ts if there is an end event, else
\* event.ts + event.dur, an absent dur counting as 0) clamped to the window.
C22_ClipWritesDerivedFieldsOnly ==
  /\ [][/\ Len(tasks') = Len(tasks)
        /\ \A n \in Nodes : Original(tasks'[n]) = Original(tasks[n])]_vars
  /\ [](window.clipped =>
          \A n \in Nodes :
            tasks[n].endTime =
              Max2(window.startTs, Min2(window.endTs, OrigEnd(n))) \div 1000)

\* A second clip with another window cut a child whose end comes from an
\* end event: its derived fields differ from the built ones.
C22_Witness ==
  /\ reclipped
  /\ \E n \in Nodes :
       /\ tasks[n].parent # NoParent
       /\ tasks[n].endEvent.defined
       /\ tasks[n].endEvent.ts > tasks[n].event.ts
       /\ tasks[n].endTime * 1000 < tasks[n].endEvent.ts
       /\ tasks[n].startTime * 1000 > tasks[n].event.ts
       /\ tasks[n].selfTime # FreshTasks[n].selfTime

\* Every child's recorded span lies within its parent's and the spans of
\* two nodes with the same parent do not overlap.
WellNested ==
  /\ \A n \in Nodes :
       tasks[n].parent # NoParent =>
         /\ OrigStart(tasks[n].parent) <= OrigStart(n)
         /\ OrigEnd(n) <= OrigEnd(tasks[n].parent)
  /\ \A n, m \in Nodes :
       (n # m /\ tasks[n].parent = tasks[m].parent) =>
         (OrigEnd(n) <= OrigStart(m) \/ OrigEnd(m) <= OrigStart(n))

\* C23: after clipping a well-nested forest with a window startTs <= endTs
\* every node has duration >= 0 and selfTime >= 0, and no child has a
\* longer clipped duration than its parent.
C23_WellNestedClipsNonNegative ==
  (window.clipped /\ window.startTs <= window.endTs /\ WellNested) =>
    \A n \in Nodes :
      /\ tasks[n].duration >= 0
      /\ tasks[n].selfTime >= 0
      /\ tasks[n].parent # NoParent =>
           tasks[n].duration <= tasks[tasks[n].parent].duration

\* A window cut a parent with two children that both ran for some time;
\* one of them still runs in the window.
C23_Witness ==
  /\ window.clipped
  /\ window.startTs < window.endTs
  /\ WellNested
  /\ \E n \in Nodes :
       /\ Len(tasks[n].children) = 2
       /\ \A k \in 1..2 : OrigDuration(tasks[n].children[k]) > 0
       /\ tasks[n].duration < OrigDuration(n)
       /\ \E k \in 1..2 : tasks[tasks[n].children[k]].duration > 0
       /\ \E k \in 1..2 : tasks[tasks[n].children[k]].duration = 0

----------------------------------------------------------------------------
(* getPhaseTimes *)

\* EventTimingEvent: ts in trace units, the args.data offsets in milliseconds.
EventTimingEvent(ts, timeStamp, processingStart, processingEnd, duration) ==
  [isNull |-> FALSE,
   ts |-> ts,
   args |-> [data |-> [timeStamp |-> timeStamp,
                       processingStart |-> processingStart,
                       processingEnd |-> processingEnd,
                       duration |-> duration,
                       type |-> "mousedown"]]]

Offsets == 0..MaxMs

\* The interaction events drawn as inputs: every combination of small
\* offsets, and the offsets 0, 5, 46, 368 at every timestamp.
InteractionEvents ==
  {EventTimingEvent(ts, timeStamp, processingStart, processingEnd, duration) :
     ts \in Timestamps, timeStamp \in Offsets, processingStart \in Offsets,
     processingEnd \in Offsets, duration \in Offsets}
  \cup {EventTimingEvent(ts, 0, 5, 46, 368) : ts \in Timestamps}

\* Mutant: the offset from navigation start is not converted to trace units.
NavStartUnscaled(startTs, interactionData) == startTs - interactionData.timeStamp

\* const navStart = startTs - interactionData.timeStamp * 1000;
NavStart(startTs, interactionData) == startTs - interactionData.timeStamp * 1000

\* Mutant: the end is measured from navigation start.
InteractionEndFromNavStart(startTs, interactionData) ==
  NavStart(startTs, interactionData) + interactionData.duration * 1000

\* const endTs = startTs + interactionData.duration * 1000;
InteractionEnd(startTs, interactionData) == startTs + interactionData.duration * 1000

getPhaseTimes(event) ==
  LET interactionData == event.args.data
      startTs == event.ts
      navStart == NavStart(startTs, interactionData)
      processingStartTs == navStart + interactionData.processingStart * 1000
      processingEndTs == navStart + interactionData.processingEnd * 1000
      endTs == InteractionEnd(startTs, interactionData)
  IN [returned |-> TRUE,
      inputDelay |-> [startTs |-> startTs, endTs |-> processingStartTs],
      processingDelay |-> [startTs |-> processingStartTs, endTs |-> processingEndTs],
      presentationDelay |-> [startTs |-> processingEndTs, endTs |-> endTs]]

GetPhaseTimes ==
  /\ pc = "getPhaseTimes"
  /\ phases' = getPhaseTimes(interactionEvent)
  /\ pc' = "done"
  /\ UNCHANGED interactionEvent
  /\ UNCHANGED <<resolverVars, clipVars, tableVars, auditVars, cacheVars>>

InitPhases ==
  /\ interactionEvent \in InteractionEvents
  /\ phases = NoPhases
  /\ pc = "getPhaseTimes"
  /\ artifacts = Null
  /\ artifactDefnsBySymbol = [s \in Symbols |-> NoDefn]
  /\ artifactDefns = <<>>
  /\ thrown = NoError
  /\ config = NoConfig
  /\ tasks = <<>>
  /\ window = NoWindow
  /\ reclipped = FALSE
  /\ TableIdle /\ AuditIdle /\ CacheIdle

NextPhases == GetPhaseTimes

SpecPhases == InitPhases /\ [][NextPhases]_vars

----------------------------------------------------------------------------
(* Properties of getPhaseTimes, checked under SpecPhases *)

data == interactionEvent.args.data
Length(w) == w.endTs - w.startTs

\* C11: the three windows getPhaseTimes returns are contiguous
\* (inputDelay starts at the event's ts, each window ends where the next
\* starts) and their three lengths add up to the interaction's duration in
\* trace units, duration * 1000.
C11_PhasesContiguous ==
  phases.returned =>
    /\ phases.inputDelay.startTs = interactionEvent.ts
    /\ phases.inputDelay.endTs = phases.processingDelay.startTs
    /\ phases.processingDelay.endTs = phases.presentationDelay.startTs
    /\ Length(phases.inputDelay) + Length(phases.processingDelay)
         + Length(phases.presentationDelay) = data.duration * 1000

C11_Witness ==
  /\ phases.returned
  /\ data.timeStamp > 0
  /\ Length(phases.inputDelay) > 0
  /\ Length(phases.processingDelay) > 0
  /\ Length(phases.presentationDelay) > 0

Window(startTs, endTs) == [startTs |-> startTs, endTs |-> endTs]
IsExample == data = EventTimingEvent(0, 0, 5, 46, 368).args.data

\* C12 as stated: navStart = ts - timeStamp and the window edges are
\* navStart + processingStart, navStart + processingEnd and ts + duration,
\* the offsets added as they are (so offsets 0, 5, 46, 368 at ts = T give
\* [T, T+5], [T+5, T+46], [T+46, T+368]).
C12_PhasesInEventUnits ==
  phases.returned =>
    LET ts == interactionEvent.ts
        navStart == ts - data.timeStamp
    IN /\ phases.inputDelay = Window(ts, navStart + data.processingStart)
       /\ phases.processingDelay
            = Window(navStart + data.processingStart, navStart + data.processingEnd)
       /\ phases.presentationDelay = Window(navStart + data.processingEnd, ts + data.duration)

\* C12 (amended): getPhaseTimes converts the millisecond offsets to trace
\* units: navStart = ts - timeStamp * 1000 and the window edges are
\* navStart + processingStart * 1000, navStart + processingEnd * 1000 and
\* ts + duration * 1000; offsets 0, 5, 46, 368 at ts = T give
\* [T, T+5000], [T+5000, T+46000], [T+46000, T+368000].
C12_PhasesInTraceUnits ==
  phases.returned =>
    LET ts == interactionEvent.ts
        navStart == ts - data.timeStamp * 1000
    IN /\ phases.inputDelay = Window(ts, navStart + data.processingStart * 1000)
       /\ phases.processingDelay = Window(navStart + data.processingStart * 1000,
                                          navStart + data.processingEnd * 1000)
       /\ phases.presentationDelay
            = Window(navStart + data.processingEnd * 1000, ts + data.duration * 1000)
       /\ IsExample =>
            /\ phases.inputDelay = Window(ts, ts + 5000)
            /\ phases.processingDelay = Window(ts + 5000, ts + 46000)
            /\ phases.presentationDelay = Window(ts + 46000, ts + 368000)

C12_Witness ==
  /\ phases.returned
  /\ IsExample
  /\ interactionEvent.ts > 0

PhaseNames == {"inputDelay", "processingDelay", "presentationDelay"}
InteractionStart == interactionEvent.ts
InteractionStop == interactionEvent.ts + data.duration * 1000

\* Two windows share more than a boundary point.
Overlap(v, w) == Max2(v.startTs, w.startTs) < Min2(v.endTs, w.endTs)

\* C13: the three windows getPhaseTimes returns partition the interaction's
\* span [ts, ts + duration] (duration in trace units): every window has
\* startTs <= endTs, lies inside the span, and no two windows share more
\* than a boundary point.
C13_PhasesPartition ==
  phases.returned =>
    /\ \A name \in PhaseNames :
         /\ phases[name].startTs <= phases[name].endTs
         /\ InteractionStart <= phases[name].startTs
         /\ phases[name].endTs <= InteractionStop
    /\ \A m, n \in PhaseNames : m # n => ~Overlap(phases[m], phases[n])

----------------------------------------------------------------------------
(* eventThreadBreakdown: the per-url rows of one phase *)

\* Execution times are whole milliseconds, like the task times they are
\* summed from.  A group that has no entry in timingByGroupId adds nothing to
\* the total and reads as 0 in a column, so it is written as the time 0.
TASK_THRESHOLD == 1

Urls == {"http://a.example/", "http://b.example/", "Unattributable"}
GroupIds == {"scriptEvaluation", "styleLayout", "paintCompositeRender", "other"}
ExecutionTimes == 0..MaxTotalMs

\* Object.values(timingByGroupId).reduce((total, timespanMs) => total + timespanMs)
TotalExecutionTime(timingByGroupId) ==
  timingByGroupId["scriptEvaluation"] + timingByGroupId["styleLayout"]
    + timingByGroupId["paintCompositeRender"] + timingByGroupId["other"]

AllTimingsByGroupId ==
  {timing \in [GroupIds -> ExecutionTimes] : TotalExecutionTime(timing) <= MaxTotalMs}

\* The timingByGroupId objects whose total is at most budget.
TimingsByGroupId(budget) ==
  {timing \in AllTimingsByGroupId : TotalExecutionTime(timing) <= budget}

\* The thread's execution time in the entries of a Map.
RECURSIVE TotalOfEntries(_)
TotalOfEntries(entries) ==
  IF entries = <<>> THEN 0
  ELSE TotalExecutionTime(entries[1].timingByGroupId) + TotalOfEntries(Tail(entries))

UrlsOf(entries) == {entries[i].url : i \in 1..Len(entries)}

\* results.push({url, total, scripting, layout, render})
ResultRow(entry) ==
  [url |-> entry.url,
   total |-> TotalExecutionTime(entry.timingByGroupId),
   scripting |-> entry.timingByGroupId["scriptEvaluation"],
   layout |-> entry.timingByGroupId["styleLayout"],
   render |-> entry.timingByGroupId["paintCompositeRender"]]

Results(entries) == [i \in 1..Len(entries) |-> ResultRow(entries[i])]

\* Mutant: a row that reaches the threshold is kept.
KeepsRowAtThreshold(result) == result.total >= TASK_THRESHOLD

\* result => result.total > TASK_THRESHOLD
KeepsRow(result) == result.total > TASK_THRESHOLD

\* Mutant: the comparator sorts ascending.
CompareAscending(a, b) == a.total - b.total

\* (a, b) => b.total - a.total
Compare(a, b) == b.total - a.total

\* Array.prototype.sort is stable: a row is placed after every row that
\* does not compare greater than it.
InsertSorted(sorted, row) ==
  LET before == {i \in 0..Len(sorted) : \A j \in 1..i : Compare(sorted[j], row) <= 0}
      k == CHOOSE i \in before : \A j \in before : j <= i
  IN SubSeq(sorted, 1, k) \o <<row>> \o SubSeq(sorted, k + 1, Len(sorted))

RECURSIVE SortRows(_)
SortRows(rows) ==
  IF rows = <<>> THEN <<>>
  ELSE InsertSorted(SortRows(SubSeq(rows, 1, Len(rows) - 1)), rows[Len(rows)])

\* results.filter(...).sort(...)
FilteredResults(results) == SortRows(SelectSeq(results, KeepsRow))

\* getExecutionTimingsByURL fills the Map it returns: one more url, in
\* insertion order, within MaxRows urls and MaxTotalMs of execution time.
SetTiming ==
  /\ pc = "getExecutionTimingsByURL"
  /\ Len(executionTimings) < MaxRows
  /\ \E url \in Urls \ UrlsOf(executionTimings),
        timing \in TimingsByGroupId(MaxTotalMs - TotalOfEntries(executionTimings)) :
       executionTimings' = Append(executionTimings, [url |-> url, timingByGroupId |-> timing])
  /\ UNCHANGED <<pc, filteredResults, items>>
  /\ UNCHANGED <<resolverVars, clipVars, phaseVars, auditVars, cacheVars>>

\* The Map is returned and the rows of the phase are built from it.
BreakdownRows ==
  /\ pc = "getExecutionTimingsByURL"
  /\ filteredResults' = FilteredResults(Results(executionTimings))
  /\ pc' = "done"
  /\ UNCHANGED <<executionTimings, items>>
  /\ UNCHANGED <<resolverVars, clipVars, phaseVars, auditVars, cacheVars>>

InitTable ==
  /\ executionTimings = <<>>
  /\ filteredResults = <<>>
  /\ items = <<>>
  /\ pc = "getExecutionTimingsByURL"
  /\ artifacts = Null
  /\ artifactDefnsBySymbol = [s \in Symbols |-> NoDefn]
  /\ artifactDefns = <<>>
  /\ thrown = NoError
  /\ config = NoConfig
  /\ tasks = <<>>
  /\ window = NoWindow
  /\ reclipped = FALSE
  /\ PhasesIdle /\ AuditIdle /\ CacheIdle

NextTable == SetTiming \/ BreakdownRows

SpecTable == InitTable /\ [][NextTable]_vars

----------------------------------------------------------------------------
(* Properties of the per-url rows, checked under SpecTable *)

results == Results(executionTimings)
RowsDone == pc = "done"
RowsOut == {filteredResults[i] : i \in 1..Len(filteredResults)}

\* C14: exactly the rows whose total is below TASK_THRESHOLD (1 ms) are
\* dropped and every other row is kept; a row whose total equals the
\* threshold is in the output.
C14_DropsOnlyBelowThreshold ==
  RowsDone =>
    \A i \in 1..Len(results) : (results[i] \in RowsOut) <=> (results[i].total >= TASK_THRESHOLD)

\* C15: the rows of a phase are in non-increasing order of total: each row's
\* total is >= the total of the row after it.
C15_RowsDescending ==
  RowsDone =>
    \A i \in 1..(Len(filteredResults) - 1) :
      filteredResults[i].total >= filteredResults[i + 1].total

\* The sort had to move a row: two kept rows arrived in ascending order.
C15_Witness ==
  /\ RowsDone
  /\ Len(filteredResults) >= 2
  /\ \E i, j \in 1..Len(results) :
       /\ i < j
       /\ KeepsRow(results[i])
       /\ results[i].total < results[j].total

\* Position of a url in the order of its strings.
UrlOrder == <<"Unattributable", "http://a.example/", "http://b.example/">>
UrlRank(url) == CHOOSE k \in 1..Len(UrlOrder) : UrlOrder[k] = url

\* The same Map entries inserted in another order.
Reinsertions(entries) ==
  {[i \in 1..Len(entries) |-> entries[f[i]]] : f \in Permutations(1..Len(entries))}

\* C16: rows with the same total are ordered by origin, so the same set of
\* (origin, total) rows inserted in any other order gives the same output
\* sequence.
C16_TiesByOrigin ==
  RowsDone =>
    /\ \A i \in 1..(Len(filteredResults) - 1) :
         filteredResults[i].total = filteredResults[i + 1].total
           => UrlRank(filteredResults[i].url) < UrlRank(filteredResults[i + 1].url)
    /\ \A entries \in Reinsertions(executionTimings) :
         FilteredResults(Results(entries)) = filteredResults

----------------------------------------------------------------------------
(* eventThreadBreakdown *)

\* A task's attributable url and its task group, per position in the task list.
Attributions(nodes) == [1..Len(nodes) -> [url : Urls, group : GroupIds]]

\* timingByGroupId[task.group.id] += task.selfTime, in the entry of the task's url.
AddTaskTiming(entries, url, group, selfTime) ==
  IF url \in UrlsOf(entries)
    THEN [i \in 1..Len(entries) |->
            IF entries[i].url = url
              THEN [entries[i] EXCEPT !.timingByGroupId[group] = @ + selfTime]
            ELSE entries[i]]
  ELSE Append(entries, [url |-> url,
                        timingByGroupId |-> [g \in GroupIds |-> IF g = group THEN selfTime ELSE 0]])

RECURSIVE TimingsOfTasks(_, _, _)
TimingsOfTasks(nodes, attribution, k) ==
  IF k = 0 THEN <<>>
  ELSE AddTaskTiming(TimingsOfTasks(nodes, attribution, k - 1),
                     attribution[k].url, attribution[k].group, nodes[k].selfTime)

getExecutionTimingsByURL(nodes, attribution) == TimingsOfTasks(nodes, attribution, Len(nodes))

\* Object.entries(phases)
PhaseOrder == <<"inputDelay", "processingDelay", "presentationDelay">>

\* Mutant: the total is left in trace units.
PhaseItemTotalInTraceUnits(phaseName, phaseTimes, rows) ==
  [phase |-> phaseName,
   total |-> phaseTimes.endTs - phaseTimes.startTs,
   subItems |-> [type |-> "subitems", items |-> rows]]

\* items.push({phase, total: (phaseTimes.endTs - phaseTimes.startTs) / 1000, subItems})
PhaseItem(phaseName, phaseTimes, rows) ==
  [phase |-> phaseName,
   total |-> (phaseTimes.endTs - phaseTimes.startTs) \div 1000,
   subItems |-> [type |-> "subitems", items |-> rows]]

\* The loop over the phases after its first k rounds: the task list as the
\* k-th clip left it, the items pushed, the Map of the k-th round.
RECURSIVE BreakdownRounds(_, _, _, _)
BreakdownRounds(threadTasks, attribution, phaseTimes, k) ==
  IF k = 0 THEN [tasks |-> threadTasks, items |-> <<>>, executionTimings |-> <<>>]
  ELSE LET before == BreakdownRounds(threadTasks, attribution, phaseTimes, k - 1)
           times == phaseTimes[PhaseOrder[k]]
           clipped == clipTasksByTs(before.tasks, times.startTs, times.endTs)
           timings == getExecutionTimingsByURL(clipped, attribution)
           rows == FilteredResults(Results(timings))
       IN [tasks |-> clipped,
           items |-> Append(before.items, PhaseItem(PhaseOrder[k], times, rows)),
           executionTimings |-> timings]

eventThreadBreakdown(event, threadTasks, attribution) ==
  LET phaseTimes == getPhaseTimes(event)
      rounds == BreakdownRounds(threadTasks, attribution, phaseTimes, Len(PhaseOrder))
  IN [table |-> [type |-> "table", items |-> rounds.items],
      phases |-> phaseTimes,
      tasks |-> rounds.tasks,
      executionTimings |-> rounds.executionTimings]

\* The interaction of the test 'evaluates INP correctly', moved to trace time
\* 0: 42 ms of input delay, 41 ms of processing, 285 ms to presentation.
TestEvent == EventTimingEvent(0, 0, 42, 83, 368)

\* The interaction events of a trace whose interaction starts at trace time 0.
BreakdownEvents == {event \in InteractionEvents : event.ts = 0} \cup {TestEvent}

\* The main-thread tasks of a thread: one task, or two tasks, nested or
\* one after the other.
NestedThreadTasks ==
  {BuildTaskNodes(raw, kind) : raw \in Forests(1) \cup Forests(2), kind \in EndKinds}

\* Script evaluation tasks, each attributed to one of the two page urls.
ScriptAttributions(nodes) ==
  [1..Len(nodes) -> [url : Urls \ {"Unattributable"}, group : {"scriptEvaluation"}]]

\* eventThreadBreakdown: the thread's tasks are built, the phases computed,
\* and for each phase in turn the tasks are clipped to it and its item pushed.
EventThreadBreakdown ==
  /\ pc = "eventThreadBreakdown"
  /\ \E threadTasks \in NestedThreadTasks :
       \E attribution \in ScriptAttributions(threadTasks) :
       \E breakdown \in {eventThreadBreakdown(interactionEvent, threadTasks, attribution)} :
         LET last == breakdown.phases[PhaseOrder[Len(PhaseOrder)]]
         IN /\ tasks' = breakdown.tasks
            /\ window' = [startTs |-> last.startTs, endTs |-> last.endTs, clipped |-> TRUE]
            /\ reclipped' = TRUE
            /\ phases' = breakdown.phases
            /\ executionTimings' = breakdown.executionTimings
            /\ filteredResults' = breakdown.table.items[Len(PhaseOrder)].subItems.items
            /\ items' = breakdown.table.items
  /\ pc' = "done"
  /\ UNCHANGED interactionEvent
  /\ UNCHANGED <<resolverVars, auditVars, cacheVars>>

InitBreakdown ==
  /\ interactionEvent \in BreakdownEvents
  /\ phases = NoPhases
  /\ pc = "eventThreadBreakdown"
  /\ artifacts = Null
  /\ artifactDefnsBySymbol = [s \in Symbols |-> NoDefn]
  /\ artifactDefns = <<>>
  /\ thrown = NoError
  /\ config = NoConfig
  /\ tasks = <<>>
  /\ window = NoWindow
  /\ reclipped = FALSE
  /\ TableIdle /\ AuditIdle /\ CacheIdle

NextBreakdown == EventThreadBreakdown

SpecBreakdown == InitBreakdown /\ [][NextBreakdown]_vars

----------------------------------------------------------------------------
(* WorkDuringInteraction.audit *)

ThrottlingMethods == {"simulate", "devtools", "provided"}

\* The main-thread tasks of the interaction's thread: one top-level task.
ThreadTasks == {BuildTaskNodes(raw, kind) : raw \in Forests(1), kind \in EndKinds}

\* defaultOptions of metrics/experimental-interaction-to-next-paint.js: the
\* score of the test's 368 ms interaction is 0, so p10 is at most 368.
inpThresholds == [p10 |-> 200]

\* Interactions whose duration lies just below, at and just above the
\* threshold the score compares it with.
ThresholdEvents ==
  {EventTimingEvent(0, 0, 5, 46, duration) :
     duration \in (inpThresholds.p10 - 1)..(inpThresholds.p10 + 1)}

\* The trace as the audit uses it: the interaction event the Responsiveness
\* computed artifact finds in it, NoEvent if it holds no interaction.
Traces ==
  [isNull : {FALSE}, interaction : {NoEvent} \cup InteractionEvents \cup ThresholdEvents]

NullScore == [isNull |-> TRUE, value |-> 0]
Score(value) == [isNull |-> FALSE, value |-> value]

\* {score: null, notApplicable: true}
NotApplicableProduct == [returned |-> TRUE, score |-> NullScore, notApplicable |-> TRUE]

\* Mutant: the method is compared with a name no setting has.
IsSimulateMisspelt(contextSettings) == contextSettings.throttlingMethod = "simulated"

\* settings.throttlingMethod === 'simulate'
IsSimulate(contextSettings) == contextSettings.throttlingMethod = "simulate"

\* Mutant: a trace without interaction fails the audit.
NoInteractionProductFails == [returned |-> TRUE, score |-> Score(0), notApplicable |-> FALSE]

\* The product returned when interactionEvent === null.
NoInteractionProduct == NotApplicableProduct

\* Mutant: a duration equal to the threshold passes.
ProductPassesAtThreshold(event, breakdown) ==
  LET duration == event.args.data.duration
      interactionType == event.args.data.type
  IN [returned |-> TRUE,
      score |-> Score(IF duration <= inpThresholds.p10 THEN 1 ELSE 0),
      notApplicable |-> FALSE,
      displayValue |-> [timeInMs |-> duration, interactionType |-> interactionType],
      details |-> [type |-> breakdown.table.type,
                   items |-> breakdown.table.items,
                   debugData |-> [type |-> "debugdata",
                                  interactionType |-> interactionType,
                                  phases |-> breakdown.phases]]]

\* return {score, displayValue, details: {...table, debugData}};
Product(event, breakdown) ==
  LET duration == event.args.data.duration
      interactionType == event.args.data.type
  IN [returned |-> TRUE,
      score |-> Score(IF duration < inpThresholds.p10 THEN 1 ELSE 0),
      notApplicable |-> FALSE,
      displayValue |-> [timeInMs |-> duration, interactionType |-> interactionType],
      details |-> [type |-> breakdown.table.type,
                   items |-> breakdown.table.items,
                   debugData |-> [type |-> "debugdata",
                                  interactionType |-> interactionType,
                                  phases |-> breakdown.phases]]]

\* A computed artifact's request rejected: the audit's await throws.
ComputedArtifactError(name) == [kind |-> "ComputedArtifactError", id |-> name, dependency |-> ""]

\* audit up to its first await: simulated throttling returns at once,
\* otherwise the Responsiveness computed artifact is requested.
AuditStart ==
  /\ pc = "audit"
  /\ IF IsSimulate(settings)
       THEN /\ auditResult' = NotApplicableProduct
            /\ pc' = "done"
            /\ UNCHANGED requested
     ELSE /\ requested' = Append(requested, "Responsiveness")
          /\ pc' = "awaitResponsiveness"
          /\ UNCHANGED auditResult
  /\ UNCHANGED <<context, settings, trace>>
  /\ UNCHANGED <<resolverVars, clipVars, phaseVars, tableVars, cacheVars>>

\* Responsiveness resolved: no interaction returns not applicable, otherwise
\* the network records are requested.
ResponsivenessResolves ==
  /\ pc = "awaitResponsiveness"
  /\ interactionEvent' = trace.interaction
  /\ IF trace.interaction = NoEvent
       THEN /\ auditResult' = NoInteractionProduct
            /\ pc' = "done"
            /\ UNCHANGED requested
     ELSE /\ requested' = Append(requested, "NetworkRecords")
          /\ pc' = "awaitNetworkRecords"
          /\ UNCHANGED auditResult
  /\ UNCHANGED <<context, settings, trace, phases>>
  /\ UNCHANGED <<resolverVars, clipVars, tableVars, cacheVars>>

\* NetworkRecords resolved: the processed trace is requested.
NetworkRecordsResolve ==
  /\ pc = "awaitNetworkRecords"
  /\ requested' = Append(requested, "ProcessedTrace")
  /\ pc' = "awaitProcessedTrace"
  /\ UNCHANGED <<context, settings, trace, auditResult>>
  /\ UNCHANGED <<resolverVars, clipVars, phaseVars, tableVars, cacheVars>>

\* ProcessedTrace resolved: the thread's tasks are built and clipped to each
\* phase, the table is made and the scored product returned.
ProcessedTraceResolves ==
  /\ pc = "awaitProcessedTrace"
  /\ \E threadTasks \in ThreadTasks :
       \E attribution \in Attributions(threadTasks) :
       \E breakdown \in {eventThreadBreakdown(interactionEvent, threadTasks, attribution)} :
         LET last == breakdown.phases[PhaseOrder[Len(PhaseOrder)]]
         IN /\ tasks' = breakdown.tasks
            /\ window' = [startTs |-> last.startTs, endTs |-> last.endTs, clipped |-> TRUE]
            /\ reclipped' = TRUE
            /\ phases' = breakdown.phases
            /\ executionTimings' = breakdown.executionTimings
            /\ filteredResults' = breakdown.table.items[Len(PhaseOrder)].subItems.items
            /\ items' = breakdown.table.items
            /\ auditResult' = Product(interactionEvent, breakdown)
  /\ pc' = "done"
  /\ UNCHANGED <<context, settings, trace, requested, interactionEvent>>
  /\ UNCHANGED <<resolverVars, cacheVars>>

\* The computed artifact the audit awaits rejects: audit throws.
RequestRejects ==
  /\ pc \in {"awaitResponsiveness", "awaitNetworkRecords", "awaitProcessedTrace"}
  /\ thrown' = ComputedArtifactError(requested[Len(requested)])
  /\ pc' = "threw"
  /\ UNCHANGED <<artifacts, artifactDefnsBySymbol, artifactDefns, config>>
  /\ UNCHANGED <<clipVars, phaseVars, tableVars, auditVars, cacheVars>>

InitAudit ==
  /\ context = NoContext
  /\ settings \in [throttlingMethod : ThrottlingMethods]
  /\ trace \in Traces
  /\ requested = <<>>
  /\ auditResult = NoProduct
  /\ pc = "audit"
  /\ artifacts = Null
  /\ artifactDefnsBySymbol = [s \in Symbols |-> NoDefn]
  /\ artifactDefns = <<>>
  /\ thrown = NoError
  /\ config = NoConfig
  /\ tasks = <<>>
  /\ window = NoWindow
  /\ reclipped = FALSE
  /\ PhasesIdle /\ TableIdle /\ CacheIdle

NextAudit ==
  \/ AuditStart
  \/ ResponsivenessResolves
  \/ NetworkRecordsResolve
  \/ ProcessedTraceResolves
  \/ RequestRejects

SpecAudit == InitAudit /\ [][NextAudit]_vars

----------------------------------------------------------------------------
(* initializeConfig: the settings overrides, and the audit run with them *)

GatherModes == {"navigation", "timespan", "snapshot"}

ThresholdNames ==
  {"cpuQuietThresholdMs", "networkQuietThresholdMs", "pauseAfterFcpMs", "pauseAfterLoadMs"}

\* config/constants.js: the minimums of the quiet windows when throttling
\* is observed, on the scale 0..MaxMs of the thresholds drawn here.
nonSimulatedPassConfigOverrides ==
  [cpuQuietThresholdMs |-> 2, networkQuietThresholdMs |-> 2,
   pauseAfterFcpMs |-> 2, pauseAfterLoadMs |-> 2]

\* The settings resolveSettings returns; a threshold that is undefined or 0
\* is the value 0 (settings.x || 0).
ResolvedSettings ==
  [throttlingMethod : ThrottlingMethods,
   cpuQuietThresholdMs : 0..MaxMs, networkQuietThresholdMs : 0..MaxMs,
   pauseAfterFcpMs : 0..MaxMs, pauseAfterLoadMs : 0..MaxMs]

\* Mutant: the gather mode is not looked at, the settings are left alone.
overrideSettingsForGatherModeSkipped(contextSettings, configContext) == contextSettings

\* if (context.gatherMode === 'timespan') if (settings.throttlingMethod ===
\* 'simulate') settings.throttlingMethod = 'devtools'
overrideSettingsForGatherMode(contextSettings, configContext) ==
  IF configContext.gatherMode = "timespan" /\ contextSettings.throttlingMethod = "simulate"
    THEN [contextSettings EXCEPT !.throttlingMethod = "devtools"]
  ELSE contextSettings

\* Each threshold becomes Math.max(settings.x || 0, minimum) unless the
\* throttling is simulated.
overrideSettingsThrottlingWindows(contextSettings) ==
  IF contextSettings.throttlingMethod = "simulate" THEN contextSettings
  ELSE [contextSettings EXCEPT
          !.cpuQuietThresholdMs =
             Max2(@, nonSimulatedPassConfigOverrides.cpuQuietThresholdMs),
          !.networkQuietThresholdMs =
             Max2(@, nonSimulatedPassConfigOverrides.networkQuietThresholdMs),
          !.pauseAfterFcpMs = Max2(@, nonSimulatedPassConfigOverrides.pauseAfterFcpMs),
          !.pauseAfterLoadMs = Max2(@, nonSimulatedPassConfigOverrides.pauseAfterLoadMs)]

OverrideSettingsForGatherMode ==
  /\ pc = "overrideSettingsForGatherMode"
  /\ settings' = overrideSettingsForGatherMode(settings, context)
  /\ pc' = "overrideSettingsThrottlingWindows"
  /\ UNCHANGED <<context, trace, requested, auditResult>>
  /\ UNCHANGED <<resolverVars, clipVars, phaseVars, tableVars, cacheVars>>

\* resolveArtifactsToDefns has returned null for a config without artifacts
\* (it reads no settings); the windows are overridden and the config is
\* handed to assertValidConfig.
OverrideSettingsThrottlingWindows ==
  /\ pc = "overrideSettingsThrottlingWindows"
  /\ settings' = overrideSettingsThrottlingWindows(settings)
  /\ pc' = "assertValidConfig"
  /\ UNCHANGED <<context, trace, requested, auditResult>>
  /\ UNCHANGED <<resolverVars, clipVars, phaseVars, tableVars, cacheVars>>

\* The audit is run with the settings of the config initializeConfig returned.
RunAudit ==
  /\ pc = "done"
  /\ config.returned
  /\ context # NoContext
  /\ ~auditResult.returned
  /\ pc' = "audit"
  /\ UNCHANGED <<resolverVars, clipVars, phaseVars, tableVars, auditVars, cacheVars>>

\* initializeConfig after resolveSettings (line 459), for a config without
\* artifacts.
InitSettings ==
  /\ context \in [gatherMode : GatherModes, settingsOverrides : ResolvedSettings]
  /\ settings = context.settingsOverrides
  /\ trace = NoTrace
  /\ requested = <<>>
  /\ auditResult = NoProduct
  /\ pc = "overrideSettingsForGatherMode"
  /\ artifacts = Null
  /\ artifactDefnsBySymbol = [s \in Symbols |-> NoDefn]
  /\ artifactDefns = <<>>
  /\ thrown = NoError
  /\ config = NoConfig
  /\ tasks = <<>>
  /\ window = NoWindow
  /\ reclipped = FALSE
  /\ PhasesIdle /\ TableIdle /\ CacheIdle

NextSettings ==
  \/ OverrideSettingsForGatherMode
  \/ OverrideSettingsThrottlingWindows
  \/ AssertValidConfig
  \/ RunAudit
  \/ AuditStart

SpecSettings == InitSettings /\ [][NextSettings]_vars

----------------------------------------------------------------------------
(* Properties of the audit, checked under SpecAudit *)

Simulated == settings.throttlingMethod = "simulate"
Returned == pc = "done" /\ auditResult.returned
NotApplicable == auditResult.score.isNull /\ auditResult.notApplicable

\* C17: with settings.throttlingMethod 'simulate' the audit returns
\* {score: null, notApplicable: true}: it never throws, and it returns
\* before any computed artifact (Responsiveness, NetworkRecords,
\* ProcessedTrace) is requested and before any task tree is built.
C17_SimulateNotApplicable ==
  Simulated =>
    /\ requested = <<>>
    /\ tasks = <<>>
    /\ thrown = NoError
    /\ pc \in {"audit", "done"}
    /\ pc = "done" => Returned /\ NotApplicable /\ auditResult = NotApplicableProduct

\* The audit returned under simulated throttling, for a trace that holds
\* an interaction.
C17_Witness ==
  /\ Simulated
  /\ Returned
  /\ NotApplicable
  /\ trace.interaction # NoEvent

\* C18: when throttling is not simulated and Responsiveness yields null,
\* the audit returns {score: null, notApplicable: true}: no error, no score
\* 0 or 1, and neither NetworkRecords nor ProcessedTrace is requested.
C18_NoInteractionNotApplicable ==
  (~Simulated /\ trace.interaction = NoEvent) =>
    /\ \A i \in 1..Len(requested) : requested[i] = "Responsiveness"
    /\ tasks = <<>>
    /\ pc \in {"audit", "awaitResponsiveness", "done", "threw"}
    /\ pc = "done" =>
         /\ interactionEvent = NoEvent
         /\ thrown = NoError
         /\ Returned /\ NotApplicable
         /\ auditResult = NotApplicableProduct
    /\ pc = "threw" => thrown = ComputedArtifactError("Responsiveness")

\* Responsiveness was requested, yielded null, and the audit returned.
C18_Witness ==
  /\ ~Simulated
  /\ trace.interaction = NoEvent
  /\ requested = <<"Responsiveness">>
  /\ Returned
  /\ NotApplicable

\* C30: when the trace holds an interaction and throttling is not
\* simulated, the returned score is never null: it is 1 exactly when the
\* interaction's duration is strictly below inpThresholds.p10 and 0
\* otherwise, so a duration equal to the threshold scores 0; the result's
\* debug data carries the three phase windows of the interaction.
C30_ScoreBelowThreshold ==
  (~Simulated /\ trace.interaction # NoEvent /\ Returned) =>
    LET duration == trace.interaction.args.data.duration
        debugData == auditResult.details.debugData
    IN /\ ~auditResult.score.isNull
       /\ ~auditResult.notApplicable
       /\ auditResult.score.value \in {0, 1}
       /\ auditResult.score.value = 1 <=> duration < inpThresholds.p10
       /\ duration = inpThresholds.p10 => auditResult.score.value = 0
       /\ debugData.type = "debugdata"
       /\ PhaseNames \subseteq DOMAIN debugData.phases
       /\ debugData.phases = getPhaseTimes(trace.interaction)
       /\ debugData.phases = phases

\* The audit scored an interaction whose duration equals the threshold.
C30_Witness ==
  /\ ~Simulated
  /\ Returned
  /\ trace.interaction # NoEvent
  /\ trace.interaction.args.data.duration = inpThresholds.p10
  /\ auditResult.score = Score(0)
  /\ auditResult.details.debugData.phases = phases

----------------------------------------------------------------------------
(* Computed-artifact cache: request(kind, inputs, computeFn) *)

\* ComputationKeys of one cache instance and the callers of request.
Keys == {"K1", "K2", "K3"}
NoKey == "none"
Callers == 1..MaxCallers

\* What a computation settles with: the value one execution of computeFn
\* made (told apart by the execution that made it), or an error.
NoResult == [kind |-> "none", key |-> NoKey, run |-> 0, keyChain |-> <<>>]
ResultValue(key, run) == [kind |-> "value", key |-> key, run |-> run, keyChain |-> <<>>]
CyclicComputationError(keyChain) ==
  [kind |-> "CyclicComputationError", key |-> NoKey, run |-> 0, keyChain |-> keyChain]
ComputeError(key) == [kind |-> "ComputeError", key |-> key, run |-> 0, keyChain |-> <<>>]

\* CachedComputation: a pending handle or a completed result.  A pending
\* computation is at its next-th recursive request and may await a key.
Absent == [state |-> "absent", result |-> NoResult, next |-> 0, awaits |-> NoKey]
PendingHandle == [state |-> "pending", result |-> NoResult, next |-> 1, awaits |-> NoKey]
Completed(result) == [state |-> "completed", result |-> result, next |-> 0, awaits |-> NoKey]
Failed(error) == [state |-> "failed", result |-> error, next |-> 0, awaits |-> NoKey]

Settled(cache, key) == cache[key].state \in {"completed", "failed"}

\* The recursive requests of one computeFn, in order: none, or one request
\* of any key, its own included.
RequestLists == {<<>>} \cup {<<key>> : key \in Keys}

\* computeFn of a key: the keys it requests, in order.
ComputeFns == [Keys -> [requests : RequestLists]]

\* Mutant: only a completed result counts, a pending handle is not looked up.
IsCachedWhenCompleted(cache, key) == cache[key].state = "completed"

\* The cache holds a pending handle or a result for the key.
IsCached(cache, key) == cache[key].state # "absent"

\* The keys a pending computation waits through, starting at key.
RECURSIVE AwaitPath(_, _, _)
AwaitPath(cache, key, n) ==
  IF n = 0 \/ cache[key].awaits = NoKey THEN <<key>>
  ELSE <<key>> \o AwaitPath(cache, cache[key].awaits, n - 1)

PositionIn(path, key) == CHOOSE i \in 1..Len(path) : path[i] = key

\* Mutant: a request never counts as returning to its own chain.
RevisitsNever(cache, requester, key) == FALSE

\* The request of requester for a pending key returns to a key of its own
\* chain: the key waits, directly or through others, for requester.
Revisits(cache, requester, key) ==
  /\ cache[key].state = "pending"
  /\ \E i \in 1..Len(AwaitPath(cache, key, Cardinality(Keys))) :
       AwaitPath(cache, key, Cardinality(Keys))[i] = requester

\* The chain of requests that returned to key: key, the keys it waits
\* through up to requester, and key again.
KeyChain(cache, requester, key) ==
  LET path == AwaitPath(cache, key, Cardinality(Keys))
  IN Append(SubSeq(path, 1, PositionIn(path, requester)), key)

\* request by a caller outside any computation: a cached key is shared,
\* otherwise computeFn is started; the caller waits for the result (found
\* keeps what the lookup met).
CallerRequests ==
  /\ pc = "cache"
  /\ \E caller \in Callers, key \in Keys :
       /\ callers[caller].state = "idle"
       /\ IF IsCached(computedCache, key)
            THEN UNCHANGED <<computedCache, executions>>
          ELSE /\ computedCache' = [computedCache EXCEPT ![key] = PendingHandle]
               /\ executions' = [executions EXCEPT ![key] = @ + 1]
       /\ callers' = [callers EXCEPT ![caller] =
                        [key |-> key, state |-> "waiting", result |-> NoResult,
                         found |-> computedCache[key].state]]
  /\ UNCHANGED <<pc, computeFns>>
  /\ UNCHANGED <<resolverVars, clipVars, phaseVars, tableVars, auditVars>>

\* computeFn of a pending key issues its next recursive request.
RecursiveRequest ==
  /\ pc = "cache"
  /\ \E requester \in Keys :
       /\ computedCache[requester].state = "pending"
       /\ computedCache[requester].awaits = NoKey
       /\ computedCache[requester].next <= Len(computeFns[requester].requests)
       /\ LET key == computeFns[requester].requests[computedCache[requester].next]
          IN IF ~IsCached(computedCache, key)
               THEN /\ computedCache' = [computedCache EXCEPT ![key] = PendingHandle,
                                                              ![requester].awaits = key]
                    /\ executions' = [executions EXCEPT ![key] = @ + 1]
             ELSE IF Revisits(computedCache, requester, key)
               THEN /\ computedCache' =
                         [computedCache EXCEPT ![requester] =
                            Failed(CyclicComputationError(
                                     KeyChain(computedCache, requester, key)))]
                    /\ UNCHANGED executions
             ELSE /\ computedCache' = [computedCache EXCEPT ![requester].awaits = key]
                  /\ UNCHANGED executions
  /\ UNCHANGED <<pc, callers, computeFns>>
  /\ UNCHANGED <<resolverVars, clipVars, phaseVars, tableVars, auditVars>>

\* Mutant: a failed dependency is handed over like a value.
HandOverIgnoresFailure(pending, awaited) ==
  [pending EXCEPT !.awaits = NoKey, !.next = @ + 1]

\* What a pending computation becomes when the key it awaits has settled:
\* a value lets it go on to its next request, a failure fails it with the
\* same error (every request is a hard dependency).
HandOver(pending, awaited) ==
  IF awaited.state = "failed" THEN Failed(awaited.result)
  ELSE [pending EXCEPT !.awaits = NoKey, !.next = @ + 1]

\* The key a computation awaits has settled: its value is handed over, its
\* failure fails the computation that requested it.
RequestSettles ==
  /\ pc = "cache"
  /\ \E requester \in Keys :
       /\ computedCache[requester].state = "pending"
       /\ computedCache[requester].awaits # NoKey
       /\ Settled(computedCache, computedCache[requester].awaits)
       /\ computedCache' =
            [computedCache EXCEPT ![requester] =
               HandOver(@, computedCache[computedCache[requester].awaits])]
  /\ UNCHANGED <<pc, executions, callers, computeFns>>
  /\ UNCHANGED <<resolverVars, clipVars, phaseVars, tableVars, auditVars>>

\* computeFn has made all its requests: it returns its value or throws.
ComputeReturns ==
  /\ pc = "cache"
  /\ \E key \in Keys :
       /\ computedCache[key].state = "pending"
       /\ computedCache[key].awaits = NoKey
       /\ computedCache[key].next > Len(computeFns[key].requests)
       /\ \E throws \in BOOLEAN :
            computedCache' =
              [computedCache EXCEPT ![key] =
                 IF throws THEN Failed(ComputeError(key))
                 ELSE Completed(ResultValue(key, executions[key]))]
  /\ UNCHANGED <<pc, executions, callers, computeFns>>
  /\ UNCHANGED <<resolverVars, clipVars, phaseVars, tableVars, auditVars>>

\* A caller receives the settled result of the key it requested.
CallerReceives ==
  /\ pc = "cache"
  /\ \E caller \in Callers :
       /\ callers[caller].state = "waiting"
       /\ Settled(computedCache, callers[caller].key)
       /\ callers' = [callers EXCEPT ![caller] =
                        [@ EXCEPT !.state = "received",
                                  !.result = computedCache[callers[caller].key].result]]
  /\ UNCHANGED <<pc, computedCache, executions, computeFns>>
  /\ UNCHANGED <<resolverVars, clipVars, phaseVars, tableVars, auditVars>>

InitCache ==
  /\ computedCache = [key \in Keys |-> Absent]
  /\ executions = [key \in Keys |-> 0]
  /\ callers = [caller \in Callers |->
                  [key |-> NoKey, state |-> "idle", result |-> NoResult, found |-> "absent"]]
  /\ computeFns \in ComputeFns
  /\ pc = "cache"
  /\ artifacts = Null
  /\ artifactDefnsBySymbol = [s \in Symbols |-> NoDefn]
  /\ artifactDefns = <<>>
  /\ thrown = NoError
  /\ config = NoConfig
  /\ tasks = <<>>
  /\ window = NoWindow
  /\ reclipped = FALSE
  /\ PhasesIdle /\ TableIdle /\ AuditIdle

NextCache ==
  \/ CallerRequests
  \/ RecursiveRequest
  \/ RequestSettles
  \/ ComputeReturns
  \/ CallerReceives

SpecCache == InitCache /\ [][NextCache]_vars

----------------------------------------------------------------------------
(* Properties of the cache, checked under SpecCache *)

Received(caller) == callers[caller].state = "received"
Requested(key) == computedCache[key].state # "absent"

\* C19: on one cache instance computeFn runs exactly once for a requested
\* key, however many callers request it and whether they do so before
\* anything is cached, while the computation is pending or after it
\* settled, and all callers of a key receive the same result, the one the
\* cache holds.
C19_ComputesOnce ==
  /\ \A key \in Keys :
       /\ executions[key] <= 1
       /\ Requested(key) <=> executions[key] = 1
  /\ \A caller \in Callers :
       /\ callers[caller].state # "idle" => executions[callers[caller].key] = 1
       /\ Received(caller) =>
            callers[caller].result = computedCache[callers[caller].key].result
  /\ \A c1, c2 \in Callers :
       (Received(c1) /\ Received(c2) /\ callers[c1].key = callers[c2].key)
         => callers[c1].result = callers[c2].result

\* Two callers of one key, the second met the pending handle of the first,
\* both received the value.
C19_Witness ==
  \E c1, c2 \in Callers :
    /\ c1 # c2
    /\ callers[c1].key = callers[c2].key
    /\ callers[c1].found = "absent"
    /\ callers[c2].found = "pending"
    /\ Received(c1) /\ Received(c2)
    /\ callers[c1].result.kind = "value"
    /\ callers[c2].result = callers[c1].result

\* A pending computation waits, directly or through others, for itself.
WaitsForItself(key) ==
  /\ computedCache[key].state = "pending"
  /\ computedCache[key].awaits # NoKey
  /\ \E i \in 1..Len(AwaitPath(computedCache, computedCache[key].awaits, Cardinality(Keys))) :
       AwaitPath(computedCache, computedCache[key].awaits, Cardinality(Keys))[i] = key

\* A sequence of keys in which each key's computeFn requests the next and
\* the last key is the first again.
IsRequestCycle(chain) ==
  /\ Len(chain) >= 2
  /\ chain[1] = chain[Len(chain)]
  /\ \A i \in 1..(Len(chain) - 1) :
       \E j \in 1..Len(computeFns[chain[i]].requests) :
         computeFns[chain[i]].requests[j] = chain[i + 1]

\* The key that a running computation requests next, NoKey if none.
NextRequest(key) ==
  IF /\ computedCache[key].state = "pending"
     /\ computedCache[key].awaits = NoKey
     /\ computedCache[key].next <= Len(computeFns[key].requests)
    THEN computeFns[key].requests[computedCache[key].next]
  ELSE NoKey

\* The next request of key goes to a pending key that waits for key.
AboutToRevisit(key) ==
  /\ NextRequest(key) # NoKey
  /\ computedCache[NextRequest(key)].state = "pending"
  /\ \/ NextRequest(key) = key
     \/ \E i \in 1..Len(AwaitPath(computedCache, NextRequest(key), Cardinality(Keys))) :
          AwaitPath(computedCache, NextRequest(key), Cardinality(Keys))[i] = key

\* C20: a recursive request that reaches a key still pending on its own
\* chain fails with CyclicComputationError carrying that chain of keys, and
\* no computation ever waits, directly or through others, for itself: every
\* chain of waiting computations ends in one that can run or has settled.
C20_CycleFailsNoDeadlock ==
  /\ [](\A key \in Keys :
          /\ ~WaitsForItself(key)
          /\ computedCache[key].state = "pending" =>
               LET path == AwaitPath(computedCache, key, Cardinality(Keys))
               IN /\ Requested(path[Len(path)])
                  /\ computedCache[path[Len(path)]].awaits = NoKey
          /\ computedCache[key].result.kind = "CyclicComputationError" =>
               IsRequestCycle(computedCache[key].result.keyChain))
  /\ [][\A key \in Keys :
          (AboutToRevisit(key) /\ computedCache'[key] # computedCache[key]) =>
            /\ computedCache'[key].state = "failed"
            /\ computedCache'[key].result.kind = "CyclicComputationError"
            /\ computedCache'[key].result.keyChain[1] = NextRequest(key)
            /\ IsRequestCycle(computedCache'[key].result.keyChain)]_vars

\* A chain of three computations closed on itself: the request that closes
\* it failed with the chain of the three keys.
C20_Witness ==
  \E key \in Keys :
    /\ computedCache[key].state = "failed"
    /\ computedCache[key].result.kind = "CyclicComputationError"
    /\ Len(computedCache[key].result.keyChain) = Cardinality(Keys) + 1
    /\ computeFns[key].requests # <<key>>

\* The keys computeFn of key requests.
RequestsOf(key) ==
  {computeFns[key].requests[j] : j \in 1..Len(computeFns[key].requests)}

\* key and the keys it requests, directly or through at most n others.
RECURSIVE DependsOn(_, _)
DependsOn(key, n) ==
  IF n = 0 THEN {key}
  ELSE {key} \cup UNION {DependsOn(dependency, n - 1) : dependency \in RequestsOf(key)}

\* The keys an error comes from: the key whose computeFn threw, or the keys
\* of the chain that closed on itself.
OriginsOf(error) ==
  IF error.kind = "ComputeError" THEN {error.key}
  ELSE {error.keyChain[i] : i \in 1..Len(error.keyChain)}

\* C21: the failure of a cached computation fails every computation that
\* requested it, with the same error, and no other: a computation fails
\* only with an error of a key it requested, directly or through others, or
\* of its own computeFn, and one that completed holds its own value and
\* requested only keys that completed.
C21_FailureReachesDependentsOnly ==
  /\ [](\A key \in Keys :
          /\ computedCache[key].state = "completed" =>
               /\ computedCache[key].result = ResultValue(key, 1)
               /\ \A dependency \in RequestsOf(key) :
                    computedCache[dependency].state = "completed"
          /\ computedCache[key].state = "failed" =>
               OriginsOf(computedCache[key].result)
                 \cap DependsOn(key, Cardinality(Keys)) # {})
  /\ [][\A key \in Keys :
          (/\ computedCache[key].state = "pending"
           /\ computedCache[key].awaits # NoKey
           /\ computedCache[computedCache[key].awaits].state = "failed"
           /\ computedCache'[key] # computedCache[key])
            => computedCache'[key] =
                 Failed(computedCache[computedCache[key].awaits].result)]_vars

\* computeFn of one key threw, a computation that requested the key failed
\* with that error, and a third computation, which requests neither,
\* completed with its own value and was received by a caller.
C21_Witness ==
  \E thrower, dependent, sibling \in Keys :
    /\ computedCache[thrower] = Failed(ComputeError(thrower))
    /\ dependent # thrower
    /\ thrower \in RequestsOf(dependent)
    /\ computedCache[dependent] = Failed(ComputeError(thrower))
    /\ DependsOn(sibling, Cardinality(Keys)) \cap {thrower, dependent} = {}
    /\ computedCache[sibling] = Completed(ResultValue(sibling, 1))
    /\ \E caller \in Callers :
         /\ callers[caller].key = sibling
         /\ callers[caller].found = "absent"
         /\ Received(caller)

----------------------------------------------------------------------------
(* Properties of eventThreadBreakdown, checked under SpecBreakdown *)

BreakdownDone == pc = "done" /\ phases.returned /\ Len(items) > 0

\* ts <= processing start <= processing end <= ts + duration, in trace units.
WellOrdered ==
  /\ InteractionStart <= phases.processingDelay.startTs
  /\ phases.processingDelay.startTs <= phases.processingDelay.endTs
  /\ phases.processingDelay.endTs <= InteractionStop

\* The thread's tasks clipped to a window.
ClippedTo(w) == clipTasksByTs(tasks, w.startTs, w.endTs)

\* C24: when the phase windows are well-ordered, every task's durations
\* under the three phase windows add up to its duration under the single
\* window [ts, ts + duration], and so do its selfTimes.
C24_ClipAdditiveOverPhases ==
  (BreakdownDone /\ WellOrdered) =>
    LET input == ClippedTo(phases.inputDelay)
        processing == ClippedTo(phases.processingDelay)
        presentation == tasks
        whole == ClippedTo(Window(InteractionStart, InteractionStop))
    IN \A n \in Nodes :
         /\ input[n].duration + processing[n].duration + presentation[n].duration
              = whole[n].duration
         /\ input[n].selfTime + processing[n].selfTime + presentation[n].selfTime
              = whole[n].selfTime

\* Three phases of positive length; a task runs in two of them and has a
\* child that runs in one of them.
C24_Witness ==
  /\ BreakdownDone
  /\ WellOrdered
  /\ \A name \in PhaseNames : Length(phases[name]) > 0
  /\ \E n \in Nodes :
       /\ Len(tasks[n].children) = 1
       /\ ClippedTo(phases.inputDelay)[n].duration > 0
       /\ ClippedTo(phases.processingDelay)[n].duration > 0
       /\ ClippedTo(phases.inputDelay)[tasks[n].children[1]].duration = 0
       /\ ClippedTo(phases.processingDelay)[tasks[n].children[1]].duration > 0

Inverted(w) == w.startTs > w.endTs

\* C25: a phase window with startTs > endTs (returned by getPhaseTimes for
\* processingStart < timeStamp, processingEnd < processingStart or
\* processingEnd > timeStamp + duration) clips every task to startTime =
\* endTime = startTs / 1000 with duration 0 and selfTime 0, while the total
\* of the phase's row, (endTs - startTs) / 1000, is negative; under no
\* window does a task get a negative duration.
C25_InvertedWindowClipsToZero ==
  BreakdownDone =>
    /\ Inverted(phases.inputDelay) <=> data.processingStart < data.timeStamp
    /\ Inverted(phases.processingDelay) <=> data.processingEnd < data.processingStart
    /\ Inverted(phases.presentationDelay)
         <=> data.processingEnd > data.timeStamp + data.duration
    /\ \A k \in 1..Len(PhaseOrder) :
         LET w == phases[PhaseOrder[k]]
             clipped == IF k = Len(PhaseOrder) THEN tasks ELSE ClippedTo(w)
         IN /\ \A n \in Nodes : clipped[n].duration >= 0
            /\ Inverted(w) =>
                 /\ items[k].total < 0
                 /\ \A n \in Nodes :
                      /\ clipped[n].startTime = w.startTs \div 1000
                      /\ clipped[n].endTime = w.startTs \div 1000
                      /\ clipped[n].duration = 0
                      /\ clipped[n].selfTime = 0

\* processingEnd lies after the interaction's end: the last clip had an
\* inverted window, and a task and its child ran between its two edges.
C25_Witness ==
  /\ BreakdownDone
  /\ Inverted(phases.presentationDelay)
  /\ ~Inverted(phases.inputDelay)
  /\ items[Len(PhaseOrder)].total < 0
  /\ \E n \in Nodes :
       /\ tasks[n].parent # NoParent
       /\ OrigStart(n) < window.startTs
       /\ OrigEnd(n) > window.endTs
       /\ OrigDuration(n) > 0
       /\ tasks[n].duration = 0
       /\ tasks[tasks[n].parent].duration = 0

\* The rows of a phase made from the forest as built, clipped to w alone.
RowsOfWindowAlone(w, attribution) ==
  FilteredResults(Results(getExecutionTimingsByURL(
    clipTasksByTs(FreshTasks, w.startTs, w.endTs), attribution)))

\* C29: the table has exactly three rows, for input delay, processing delay
\* and presentation delay in this order; a row's total is the length of its
\* phase window / 1000, the three totals add up to the interaction's
\* duration in ms (42 + 41 + 285 = 368 for the test's interaction), and the
\* sub-items of each row are those of the thread's tasks clipped to that
\* row's window alone, whatever the previous row's clip left.
C29_ThreePhaseRows ==
  BreakdownDone =>
    /\ Len(items) = 3
    /\ items[1].phase = "inputDelay"
    /\ items[2].phase = "processingDelay"
    /\ items[3].phase = "presentationDelay"
    /\ \A k \in 1..3 : items[k].total * 1000 = Length(phases[items[k].phase])
    /\ items[1].total + items[2].total + items[3].total = data.duration
    /\ interactionEvent = TestEvent =>
         <<items[1].total, items[2].total, items[3].total>> = <<42, 41, 285>>
    /\ \E attribution \in ScriptAttributions(tasks) :
         /\ executionTimings = getExecutionTimingsByURL(tasks, attribution)
         /\ \A k \in 1..3 :
              items[k].subItems.items
                = RowsOfWindowAlone(phases[items[k].phase], attribution)

\* The input delay is empty, so its clip left every task with duration 0
\* and its row without sub-items; the row of the processing delay has a
\* sub-item for a task that runs in it.
C29_Witness ==
  /\ BreakdownDone
  /\ items[1].total = 0
  /\ items[1].subItems.items = <<>>
  /\ items[2].total > 0
  /\ Len(items[2].subItems.items) = 1
  /\ items[2].subItems.items[1].total > TASK_THRESHOLD
  /\ items[3].total > 0

----------------------------------------------------------------------------
(* Properties of the settings overrides, checked under SpecSettings *)

Timespan == context.gatherMode = "timespan"
GatherModeOverridden == pc # "overrideSettingsForGatherMode"
ThrottlingWindowsOverridden ==
  pc \notin {"overrideSettingsForGatherMode", "overrideSettingsThrottlingWindows"}

\* C28: in gather mode 'timespan' the settings never keep throttlingMethod
\* 'simulate' (it becomes 'devtools'; every other method, and every method
\* in another gather mode, stays as resolved); the thresholds of a timespan
\* config are therefore raised to the non-simulated minimums, and the audit
\* run with such a config never returns from its simulated-throttling
\* branch: it goes on to request Responsiveness.
C28_TimespanNeverSimulates ==
  /\ GatherModeOverridden =>
       settings.throttlingMethod =
         IF Timespan /\ context.settingsOverrides.throttlingMethod = "simulate"
           THEN "devtools"
         ELSE context.settingsOverrides.throttlingMethod
  /\ (Timespan /\ GatherModeOverridden) => ~IsSimulate(settings)
  /\ (Timespan /\ ThrottlingWindowsOverridden) =>
       \A name \in ThresholdNames :
         /\ settings[name] >= nonSimulatedPassConfigOverrides[name]
         /\ settings[name] = Max2(context.settingsOverrides[name],
                                  nonSimulatedPassConfigOverrides[name])
  /\ Timespan =>
       /\ auditResult = NoProduct
       /\ pc \notin {"overrideSettingsForGatherMode", "overrideSettingsThrottlingWindows",
                      "assertValidConfig", "done", "audit"}
            => (pc = "awaitResponsiveness" /\ requested = <<"Responsiveness">>)

\* A timespan config resolved with 'simulate' and thresholds below the
\* minimums: the audit run with it has requested Responsiveness.
C28_Witness ==
  /\ Timespan
  /\ context.settingsOverrides.throttlingMethod = "simulate"
  /\ \A name \in ThresholdNames :
       context.settingsOverrides[name] < nonSimulatedPassConfigOverrides[name]
  /\ config.returned
  /\ settings.throttlingMethod = "devtools"
  /\ pc = "awaitResponsiveness"

====